---- MODULE Spec2Model ----
(***************************************************************************)
(* Message-processing pipeline of the AlfaFrens client plugin:             *)
(*   - AlfaFrensAIInteraction (extensions/ai-interaction): start, stop,    *)
(*     processMessages, processMessageBatch, createPost                    *)
(*   - AlfaFrensManager (alfafrens-client.ts): initialize, stop            *)
(*   - FactValidationManager (extensions/fact-validation.ts)               *)
(*   - generateResponse, generateLLMResponse, generatePostContent          *)
(*     (extensions/utils)                                                  *)
(* Every suspension point (await) of the source is a separate action, so   *)
(* that calls in flight interleave the way the event loop allows.          *)
(*   Spec         the orchestrator, started and stopped by its host        *)
(*   SpecManager  the orchestrator driven by AlfaFrensManager, restarts    *)
(*   SpecFact     calculateFactConfidence and storeFact on their inputs    *)
(*   SpecGen      the steps of one generateResponse call after the other   *)
(*   SpecGenFair  SpecGen, every awaited call settling                     *)
(*   SpecExtract  extractFacts on the answers of the generation            *)
(*   SpecFallback extractFactsFallback on short texts                      *)
(*   SpecLLM      generateLLMResponse: the generation raced with a timer   *)
(*   SpecLLMFair  SpecLLM, every armed timer firing                        *)
(***************************************************************************)
EXTENDS Integers, Sequences, FiniteSets, TLC

(***************************************************************************)
(* Bounds of the model                                                     *)
(***************************************************************************)
Epoch == 300999       \* Date.now() when the objects are constructed (ms)
MaxTicks == 1         \* how many milliseconds the clock advances
MaxUserMsgs == 2      \* messages other accounts write to the channel
MaxCycles == 2        \* calls of processMessages
MaxInFlight == 2      \* calls of processMessages in flight at the same time
MaxPosts == 1         \* calls of createPost made by the post timer
MaxHostCalls == 2     \* start()/stop() calls made by the host
MaxMgrUserMsgs == 1   \* as MaxUserMsgs, when the manager drives the pipeline
MaxRestarts == 1      \* restarts of the host process
MaxTimerCalls == 3    \* start()/stop() calls when only the timers are followed

NULL == 0

(***************************************************************************)
(* Helpers                                                                 *)
(***************************************************************************)
SeqMax(s) == CHOOSE x \in {s[i] : i \in 1..Len(s)} :
                 \A j \in 1..Len(s) : s[j] <= x

\* a bag of message ids, with one more occurrence of each id in S
Bump(f, S) ==
    [x \in DOMAIN f \cup S |->
        (IF x \in DOMAIN f THEN f[x] ELSE 0) + (IF x \in S THEN 1 ELSE 0)]

Count(f, x) == IF x \in DOMAIN f THEN f[x] ELSE 0

LastN(s, n) == IF Len(s) <= n THEN s ELSE SubSeq(s, Len(s) - n + 1, Len(s))

\* String.prototype.replace(ch, ''): removes the FIRST occurrence of ch
RECURSIVE StringReplaceFirst(_, _)
StringReplaceFirst(s, ch) ==
    IF s = <<>> THEN <<>>
    ELSE IF Head(s) = ch THEN Tail(s)
    ELSE <<Head(s)>> \o StringReplaceFirst(Tail(s), ch)

\* what "a leading '@' is stripped" means
StripLeading(s, ch) == IF s # <<>> /\ Head(s) = ch THEN Tail(s) ELSE s

\* the remote renders createdAt (ms) as an ISO-8601 string: seconds and a
\* millisecond fraction; new Date(iso).getTime() parses it back
ToISOString(ms) == [sec |-> ms \div 1000, msec |-> ms % 1000]
DateGetTime(iso) == iso.sec * 1000 + iso.msec

OneHour == 60 * 60 * 1000
FiveMinutes == 5 * 60 * 1000
HistoryLimit == 50

UpdateHistory_KeepFirst(history, messages) ==
    SubSeq(history \o messages, 1,
           IF Len(history \o messages) < HistoryLimit
           THEN Len(history \o messages) ELSE HistoryLimit)

\* last write wins: what was in the buffer is dropped
UpdateHistory_Overwrite(history, messages) == LastN(messages, HistoryLimit)

\* this.messageHistory.concat(messages).slice(-50)
UpdateHistory(history, messages) == LastN(history \o messages, HistoryLimit)

(***************************************************************************)
(* State                                                                   *)
(***************************************************************************)
VARIABLES
    \* --- environment: clock and the remote channel
    now,                 \* Date.now()
    channel,             \* the remote channel: messages in creation order; a
                         \* message's id is its position
    \* --- AlfaFrensAIInteraction (the orchestrator)
    config,              \* client.config: userId, username, enablePost
    isRunning,
    pollIntervalId,      \* id of the timer the field refers to, or NULL
    postIntervalId,
    lastProcessedTime,   \* the pipeline checkpoint
    messageHistory,      \* rolling buffer of message ids
    sentMessageIds,      \* SentMessageRegistry
    \* --- event loop
    timers,              \* armed interval timers: [id, kind]
    nextTimer,
    cycles,              \* processMessages calls in flight: id -> record
    nextCycle,
    posts,               \* createPost calls in flight: id -> record
    nextPost,
    hostCalls,           \* number of start()/stop() calls made so far
    \* --- AlfaFrensManager
    mgrRunning,          \* manager.isRunning
    mgrLastProcessedTime,\* manager.lastProcessedTime
    cache,               \* cacheManager entry alfafrens_last_processed_time
    mgrInit,             \* position of the initialize() call in flight
    mgrStop,             \* position of the manager stop() call in flight
    restarts,            \* number of restarts of the host process
    mgrReturned,         \* how the latest settled initialize()/stop() ended
    \* --- observation (history) variables
    fetchLog,            \* message id -> number of fetches it was returned to
    persistLog,          \* message id -> number of createMemory calls
    evalLog,             \* message id -> number of evaluateMessage calls
    sendLog,             \* message id -> number of replies sent through the API
    lastBatch,           \* ids of the batch of the latest checkpoint write
    \* --- FactValidationManager and generateResponse
    factStore,           \* fact memories of the agent's room, oldest first
    confCall,            \* the calculateFactConfidence call, if it is the
                         \* latest call made to the validator, else <<>>
    storeCall,           \* the same for storeFact
    gen,                 \* the generateResponse call in flight
    genCalls,            \* number of generateResponse calls made so far
    val,                 \* the FACT_VALIDATION handler or worker in flight
    \* --- calls of extractFacts
    ext,                 \* the call of extractFacts / extractFactsFallback
    \* --- calls of generateLLMResponse
    llm,                 \* the calls made, each with its timer and request
    \* --- operations examined on their own
    act,                 \* the call of a handler of a registered action
    thread,              \* the call of getMessageHistory
    aiPost,              \* AlfaFrensAIPost with its task manager
    run,                 \* one processMessages call from the answer on
    buf                  \* the history buffer over a sequence of cycles

varsEnv  == <<now, channel>>
varsPipe == <<config, isRunning, pollIntervalId, postIntervalId,
              lastProcessedTime, messageHistory, sentMessageIds>>
varsLoop == <<timers, nextTimer, cycles, nextCycle, posts, nextPost, hostCalls>>
varsMgr  == <<mgrRunning, mgrLastProcessedTime, cache, mgrInit, mgrStop,
              restarts, mgrReturned>>
varsObs  == <<fetchLog, persistLog, evalLog, sendLog, lastBatch>>
varsFact == <<factStore, confCall, storeCall, gen, genCalls, val>>
varsUnit == <<act, thread, aiPost, run, buf>>
varsCall == <<ext, llm, varsUnit>>

(***************************************************************************)
(* Configurations and accounts                                             *)
(***************************************************************************)
\* handles are strings, modelled as sequences of characters
\* postIntervalMin and postIntervalMax count half seconds, so that values
\* that are no whole number of seconds can be told apart (7200 is 3600 s)
Configs ==
    { [userId |-> "bot", username |-> <<"@", "b">>,      enablePost |-> FALSE,
       postIntervalMin |-> 7200, postIntervalMax |-> 7200],
      [userId |-> "bot", username |-> <<"b", "@", "t">>, enablePost |-> TRUE,
       postIntervalMin |-> 7200, postIntervalMax |-> 7200] }

\* the post intervals tried when only the timers are followed: 1 s, 1.5 s,
\* 2 s and 3.5 s, in either order
HalfSeconds == {2, 3, 4, 7}

TimerConfigs ==
    [userId : {"bot"}, username : {<<"b">>}, enablePost : BOOLEAN,
     postIntervalMin : HalfSeconds, postIntervalMax : HalfSeconds]

\* sender id and handle of the messages other clients write to the channel
Senders ==
    { [senderId |-> "bot", senderUsername |-> <<"a">>],
      [senderId |-> "u2",  senderUsername |-> <<"b">>],
      [senderId |-> "u2",  senderUsername |-> <<"@", "b", "@", "t">>] }

\* the account the API key belongs to: the remote stamps it on what we send
BotAccount == [senderId |-> "bot", senderUsername |-> <<"b">>]

(***************************************************************************)
(* Remote Channel Gateway                                                  *)
(***************************************************************************)
\* AlfaFrensApi.getMessages: since=${options.since || Date.now() - 3600000}
ApiSince(since) == IF since = 0 THEN now - OneHour ELSE since

\* the remote's answer: the messages with createdAt >= since, ascending by
\* createdAt, each carrying its timestamp as a string
GetChannelMessages(ch, since) ==
    LET ids == SelectSeq([i \in 1..Len(ch) |-> i],
                         LAMBDA i : ch[i].createdAt >= ApiSince(since))
    IN  [k \in 1..Len(ids) |->
            [id             |-> ids[k],
             timestamp      |-> ToISOString(ch[ids[k]].createdAt),
             senderId       |-> ch[ids[k]].senderId,
             senderUsername |-> ch[ids[k]].senderUsername]]

\* /api/ai/postMessage: the remote appends the message, stamped with the
\* time of arrival, and assigns its id; a request of ours arrives later than
\* whatever is in the channel
PostMessage(origin) ==
    Append(channel, [createdAt      |-> now + 1,
                     senderId       |-> BotAccount.senderId,
                     senderUsername |-> BotAccount.senderUsername,
                     origin         |-> origin])

\* messages other clients write to the channel: each one dt ms after the
\* event before it (dt = 0: same createdAt)
UserMessages(ch) == {i \in 1..Len(ch) : ch[i].origin = "user"}

RECURSIVE SumDt(_)
SumDt(arr) == IF arr = <<>> THEN 0 ELSE Head(arr).dt + SumDt(Tail(arr))

ArrivalSeqs(n) ==
    UNION {[1..k -> [sender : Senders, dt : {0, 1}]] : k \in 0..n}

Arrivals(maxMsgs) ==
    {arr \in ArrivalSeqs(maxMsgs - Cardinality(UserMessages(channel))) :
        now + SumDt(arr) <= Epoch + MaxTicks}

RECURSIVE Arrive(_, _, _)
Arrive(ch, t, arr) ==
    IF arr = <<>> THEN ch
    ELSE Arrive(Append(ch, [createdAt      |-> t + Head(arr).dt,
                            senderId       |-> Head(arr).sender.senderId,
                            senderUsername |-> Head(arr).sender.senderUsername,
                            origin         |-> "user"]),
                t + Head(arr).dt, Tail(arr))

\* messages, by id
BatchMaxCreatedAt(ids) == SeqMax([k \in 1..Len(ids) |-> channel[ids[k]].createdAt])

(***************************************************************************)
(* processMessageBatch: the three skip tests                               *)
(***************************************************************************)
NormalizeUsername(name) == StringReplaceFirst(name, "@")

SkipMessage(m, sent) ==
    \/ m.id \in sent
    \/ m.senderId = config.userId
    \/ LET normalizedMessageUsername == NormalizeUsername(m.senderUsername)
           normalizedConfigUsername  == NormalizeUsername(config.username)
       IN  /\ normalizedMessageUsername # <<>>
           /\ normalizedConfigUsername # <<>>
           /\ normalizedMessageUsername = normalizedConfigUsername

\* index of the first message at or after i that is not skipped
NextIdx(resp, i, sent) ==
    LET cand == {j \in i..Len(resp) : ~SkipMessage(resp[j], sent)}
    IN  IF cand = {} THEN Len(resp) + 1
        ELSE CHOOSE j \in cand : \A k \in cand : j <= k

\* evaluateMessage: "force debug mode", always true
evaluateMessage(m) == TRUE

(***************************************************************************)
(* AlfaFrensAIInteraction: start, stop                                     *)
(***************************************************************************)
Remove(f, k) == [x \in DOMAIN f \ {k} |-> f[x]]

\* the fetch is issued without a since value
NewCycle_NoSince(tag) ==
    [pc      |-> "fetching",
     since   |-> 0,
     prevMax |-> IF lastBatch = <<>> THEN NULL ELSE BatchMaxCreatedAt(lastBatch),
     resp    |-> <<>>,
     idx     |-> 0,
     replyId |-> NULL,
     awaited |-> tag]

\* processMessages up to its first await: the fetch is issued with
\* since = lastProcessedTime
NewCycle(tag) ==
    [pc      |-> "fetching",
     since   |-> lastProcessedTime,
     prevMax |-> IF lastBatch = <<>> THEN NULL ELSE BatchMaxCreatedAt(lastBatch),
     resp    |-> <<>>,
     idx     |-> 0,
     replyId |-> NULL,
     awaited |-> tag]

\* Math.random() is r / RandomSteps, one of 0, 0.25, 0.5, 0.75
RandomSteps == 4

\* the minimum is added twice
PostInterval_MinTwice(min, max, r) ==
    (r * (max - min) + 2 * RandomSteps * min) \div (2 * RandomSteps)

\* Math.floor(Math.random() * (postIntervalMax - postIntervalMin) +
\* postIntervalMin), in seconds, for a minimum and a maximum in half seconds
PostInterval(min, max, r) ==
    (r * (max - min) + RandomSteps * min) \div (2 * RandomSteps)

\* setInterval(..., postInterval * 1000) in start()
ArmPostTimer ==
    /\ \E r \in 0..(RandomSteps - 1) :
          timers' = timers \cup
              {[id |-> nextTimer, kind |-> "post",
                interval |-> PostInterval(config.postIntervalMin,
                                          config.postIntervalMax, r)]}
    /\ postIntervalId' = nextTimer
    /\ nextTimer' = nextTimer + 1

\* start() after "await this.processMessages()": posting is set up if enabled
StartResume ==
    IF config.enablePost
    THEN ArmPostTimer
    ELSE UNCHANGED <<timers, postIntervalId, nextTimer>>

\* processMessages settles; the start() call that awaits it, if any, resumes,
\* and then the initialize() call that awaits that start()
Finish(c, cyc) ==
    /\ cycles' = Remove(cycles, c)
    /\ CASE cyc.awaited = "none" ->
                UNCHANGED <<timers, postIntervalId, nextTimer, varsMgr>>
         [] cyc.awaited = "host" ->
                StartResume /\ UNCHANGED varsMgr
         [] cyc.awaited = "mgr" ->
                /\ StartResume
                /\ mgrInit' = "posting"
                /\ UNCHANGED <<mgrRunning, mgrLastProcessedTime, cache, mgrStop,
                               restarts, mgrReturned>>

\* processMessageBatch from message i on: skipped messages are passed over
\* synchronously; for the first one that is not, createMemory is called
Proceed(c, cyc, i, sent) ==
    LET j == NextIdx(cyc.resp, i, sent)
    IN  IF j <= Len(cyc.resp)
        THEN /\ cycles' = [cycles EXCEPT ![c] =
                              [cyc EXCEPT !.pc = "handling", !.idx = j]]
             /\ persistLog' = Bump(persistLog, {cyc.resp[j].id})
             /\ UNCHANGED <<timers, postIntervalId, nextTimer, varsMgr>>
        ELSE /\ persistLog' = persistLog
             /\ Finish(c, cyc)

\* getNumericSetting(this.runtime, "ALFAFRENS_POLL_INTERVAL_SECONDS", 30)
PollInterval == 30

\* start() of a stopped orchestrator, up to "await this.processMessages()"
StartBody(tag) ==
    /\ isRunning' = TRUE
    /\ timers' = timers \cup {[id |-> nextTimer, kind |-> "poll",
                                interval |-> PollInterval]}
    /\ pollIntervalId' = nextTimer
    /\ nextTimer' = nextTimer + 1
    /\ cycles' = cycles @@ (nextCycle :> NewCycle(tag))
    /\ nextCycle' = nextCycle + 1

\* stop() of a running orchestrator
StopBody ==
    /\ isRunning' = FALSE
    /\ timers' = {t \in timers : t.id # pollIntervalId /\ t.id # postIntervalId}
    /\ pollIntervalId' = NULL
    /\ postIntervalId' = NULL

\* the host calls aiInteraction.start(), as one of at most limit calls
HostStart(limit) ==
    /\ UNCHANGED <<varsFact, varsCall>>
    /\ hostCalls < limit
    /\ hostCalls' = hostCalls + 1
    /\ IF isRunning
       THEN UNCHANGED <<isRunning, timers, pollIntervalId, nextTimer, cycles, nextCycle>>
       ELSE /\ nextCycle <= MaxCycles
            /\ Cardinality(DOMAIN cycles) < MaxInFlight
            /\ StartBody("host")
    /\ UNCHANGED <<varsEnv, config, postIntervalId, lastProcessedTime,
                   messageHistory, sentMessageIds, posts, nextPost,
                   varsMgr, varsObs>>

Start == HostStart(MaxHostCalls)

\* the host calls aiInteraction.stop(), as one of at most limit calls
HostStop(limit) ==
    /\ UNCHANGED <<varsFact, varsCall>>
    /\ hostCalls < limit
    /\ hostCalls' = hostCalls + 1
    /\ IF isRunning
       THEN StopBody
       ELSE UNCHANGED <<isRunning, timers, pollIntervalId, postIntervalId>>
    /\ UNCHANGED <<varsEnv, config, lastProcessedTime, messageHistory,
                   sentMessageIds, nextTimer, cycles, nextCycle, posts,
                   nextPost, varsMgr, varsObs>>

Stop == HostStop(MaxHostCalls)

(***************************************************************************)
(* processMessages / processMessageBatch                                   *)
(***************************************************************************)
\* the poll timer fires: processMessages is called; it returns at once when
\* the orchestrator is not running, else it issues the fetch
PollTick(t) ==
    /\ UNCHANGED <<varsFact, varsCall>>
    /\ t \in timers /\ t.kind = "poll"
    /\ nextCycle <= MaxCycles
    /\ Cardinality(DOMAIN cycles) < MaxInFlight
    /\ nextCycle' = nextCycle + 1
    /\ cycles' = IF isRunning THEN cycles @@ (nextCycle :> NewCycle("none"))
                 ELSE cycles
    /\ UNCHANGED <<varsEnv, varsPipe, timers, nextTimer, posts, nextPost,
                   hostCalls, varsMgr, varsObs>>

\* the remote evaluates the query, over the channel as it is by then: arr
\* are the messages other clients have written meanwhile
ServerAnswer(c, arr) ==
    /\ UNCHANGED <<varsFact, varsCall>>
    /\ c \in DOMAIN cycles /\ cycles[c].pc = "fetching"
    /\ channel' = Arrive(channel, now, arr)
    /\ now' = now + SumDt(arr)
    /\ LET resp == GetChannelMessages(channel', cycles[c].since)
       IN  /\ cycles' = [cycles EXCEPT ![c].pc = "responded", ![c].resp = resp]
           /\ fetchLog' = Bump(fetchLog, {resp[k].id : k \in 1..Len(resp)})
    /\ UNCHANGED <<varsPipe, timers, nextTimer, nextCycle, posts,
                   nextPost, hostCalls, varsMgr, persistLog, evalLog, sendLog,
                   lastBatch>>

\* the failure of a cycle clears the poll timer
CatchError_Disarm(c, cyc) ==
    /\ cycles' = Remove(cycles, c)
    /\ timers' = {t \in timers : t.kind # "poll"}
    /\ UNCHANGED <<postIntervalId, nextTimer, varsMgr>>

\* catch (error) of processMessages: the error is logged and the call
\* resolves
CatchError(c, cyc) == Finish(c, cyc)

\* the fetch fails (non-success status): caught and logged in processMessages
FetchFail(c) ==
    /\ UNCHANGED <<varsFact, varsCall>>
    /\ c \in DOMAIN cycles /\ cycles[c].pc = "fetching"
    /\ CatchError(c, cycles[c])
    /\ UNCHANGED <<varsEnv, config, isRunning, pollIntervalId,
                   lastProcessedTime, messageHistory, sentMessageIds,
                   nextCycle, posts, nextPost, hostCalls, varsObs>>

\* a slip in the checkpoint: the "+ 1" is left out
NextCheckpoint_NoIncrement(messages) ==
    DateGetTime(messages[Len(messages)].timestamp)

\* new Date(messages[messages.length - 1].timestamp).getTime() + 1
NextCheckpoint(messages) ==
    DateGetTime(messages[Len(messages)].timestamp) + 1

\* getMessages resolves: history and checkpoint are updated, then the batches
\* are processed up to the first createMemory call
FetchReturn(c) ==
    /\ UNCHANGED <<varsFact, varsCall>>
    /\ c \in DOMAIN cycles /\ cycles[c].pc = "responded"
    /\ LET cyc      == cycles[c]
           messages == cyc.resp
       IN  IF Len(messages) = 0
           THEN /\ Finish(c, cyc)
                /\ UNCHANGED <<messageHistory, lastProcessedTime, lastBatch,
                               persistLog>>
           ELSE /\ messageHistory' =
                      UpdateHistory(messageHistory,
                                    [k \in 1..Len(messages) |-> messages[k].id])
                /\ lastProcessedTime' = NextCheckpoint(messages)
                /\ lastBatch' = [k \in 1..Len(messages) |-> messages[k].id]
                /\ Proceed(c, cyc, 1, sentMessageIds)
    /\ UNCHANGED <<varsEnv, config, isRunning, pollIntervalId, sentMessageIds,
                   nextCycle, posts, nextPost, hostCalls, fetchLog, evalLog,
                   sendLog>>

\* createMemory has settled (a failure is logged and ignored), the message
\* has gone to the evaluator, and generateResponse settles: with a text,
\* which is sent as a reply, or with an error, which is caught and logged.
\* The steps inside generateResponse are the actions of SpecGen; the
\* orchestrator reads nothing of what they write (the fact memories).
GenerateReturn(c, ok) ==
    /\ UNCHANGED <<varsFact, varsCall>>
    /\ c \in DOMAIN cycles /\ cycles[c].pc = "handling"
    /\ LET cyc == cycles[c]
           m   == cyc.resp[cyc.idx]
       IN  /\ evalLog' = Bump(evalLog, {m.id})
           /\ IF evaluateMessage(m) /\ ok
              THEN /\ cycles' = [cycles EXCEPT ![c].pc = "sending"]
                   /\ sendLog' = Bump(sendLog, {m.id})
                   /\ UNCHANGED <<persistLog, timers, postIntervalId,
                                  nextTimer, varsMgr>>
              ELSE /\ sendLog' = sendLog
                   /\ Proceed(c, cyc, cyc.idx + 1, sentMessageIds)
    /\ UNCHANGED <<varsEnv, config, isRunning, pollIntervalId,
                   lastProcessedTime, messageHistory, sentMessageIds,
                   nextCycle, posts, nextPost, hostCalls, fetchLog,
                   lastBatch>>

\* the remote handles the reply: it is appended to the channel, or refused
ServerReply(c, ok) ==
    /\ UNCHANGED <<varsFact, varsCall>>
    /\ c \in DOMAIN cycles /\ cycles[c].pc = "sending"
    /\ LET cyc == cycles[c]
       IN  IF ok
           THEN /\ channel' = PostMessage("reply")
                /\ now' = now + 1
                /\ cycles' = [cycles EXCEPT ![c].pc = "sent",
                                            ![c].replyId = Len(channel) + 1]
                /\ UNCHANGED <<persistLog, timers, postIntervalId, nextTimer,
                               varsMgr>>
           ELSE /\ UNCHANGED varsEnv
                /\ Proceed(c, cyc, cyc.idx + 1, sentMessageIds)
    /\ UNCHANGED <<config, isRunning, pollIntervalId, lastProcessedTime,
                   messageHistory, sentMessageIds, nextCycle, posts, nextPost,
                   hostCalls, fetchLog, evalLog, sendLog, lastBatch>>

\* the registry is replaced by the new id
TrackSentId_Replace(ids, id) == {id}

\* this.sentMessageIds.add(result[0].message.id)
TrackSentId(ids, id) == ids \cup {id}

\* sendMessage resolves: the id of the reply is registered
SendReturn(c) ==
    /\ UNCHANGED <<varsFact, varsCall>>
    /\ c \in DOMAIN cycles /\ cycles[c].pc = "sent"
    /\ LET cyc == cycles[c]
       IN  /\ sentMessageIds' = TrackSentId(sentMessageIds, cyc.replyId)
           /\ Proceed(c, cyc, cyc.idx + 1, sentMessageIds')
    /\ UNCHANGED <<varsEnv, config, isRunning, pollIntervalId,
                   lastProcessedTime, messageHistory, nextCycle, posts,
                   nextPost, hostCalls, fetchLog, evalLog, sendLog, lastBatch>>

(***************************************************************************)
(* createPost (post timer)                                                 *)
(***************************************************************************)
\* the post timer fires: createPost generates the content
PostTick(t) ==
    /\ UNCHANGED <<varsFact, varsCall>>
    /\ t \in timers /\ t.kind = "post"
    /\ nextPost <= MaxPosts
    /\ posts' = posts @@ (nextPost :> [pc |-> "creating", postId |-> NULL])
    /\ nextPost' = nextPost + 1
    /\ UNCHANGED <<varsEnv, varsPipe, timers, nextTimer, cycles, nextCycle,
                   hostCalls, varsMgr, varsObs>>

\* the content (or the fallback sentence) is there and the remote handles
\* client.createPost: the post is appended to the channel, or refused, in
\* which case createPost rethrows and the timer callback logs the error
ServerPost(p, ok) ==
    /\ UNCHANGED <<varsFact, varsCall>>
    /\ p \in DOMAIN posts /\ posts[p].pc = "creating"
    /\ IF ok
       THEN /\ channel' = PostMessage("post")
            /\ now' = now + 1
            /\ posts' = [posts EXCEPT ![p].pc = "created",
                                      ![p].postId = Len(channel) + 1]
       ELSE /\ UNCHANGED varsEnv
            /\ posts' = Remove(posts, p)
    /\ UNCHANGED <<varsPipe, timers, nextTimer, cycles, nextCycle,
                   nextPost, hostCalls, varsMgr, varsObs>>

\* client.createPost resolves: the id of the post is registered
PostReturn(p) ==
    /\ UNCHANGED <<varsFact, varsCall>>
    /\ p \in DOMAIN posts /\ posts[p].pc = "created"
    /\ sentMessageIds' = TrackSentId(sentMessageIds, posts[p].postId)
    /\ posts' = Remove(posts, p)
    /\ UNCHANGED <<varsEnv, config, isRunning, pollIntervalId, postIntervalId,
                   lastProcessedTime, messageHistory, timers, nextTimer,
                   cycles, nextCycle, nextPost, hostCalls, varsMgr, varsObs>>

(***************************************************************************)
(* Specification of the orchestrator driven directly by its host           *)
(***************************************************************************)
InitEnv ==
    /\ now = Epoch
    /\ channel = <<>>

InitPipeOf(configs) ==
    /\ config \in configs
    /\ isRunning = FALSE
    /\ pollIntervalId = NULL
    /\ postIntervalId = NULL
    /\ lastProcessedTime = Epoch
    /\ messageHistory = <<>>
    /\ sentMessageIds = {}

InitPipe == InitPipeOf(Configs)

InitLoop ==
    /\ timers = {}
    /\ nextTimer = 1
    /\ cycles = <<>>
    /\ nextCycle = 1
    /\ posts = <<>>
    /\ nextPost = 1
    /\ hostCalls = 0

InitMgr ==
    /\ mgrRunning = FALSE
    /\ mgrLastProcessedTime = 0
    /\ cache = NULL
    /\ mgrInit = "idle"
    /\ mgrStop = [pc |-> "idle", value |-> 0]
    /\ restarts = 0
    /\ mgrReturned = [call |-> "none", outcome |-> "none"]

InitObs ==
    /\ fetchLog = <<>>
    /\ persistLog = <<>>
    /\ evalLog = <<>>
    /\ sendLog = <<>>
    /\ lastBatch = <<>>

\* no fact has been stored and generateResponse has not been called
GenIdle ==
    [pc |-> "idle", facts |-> <<>>, idx |-> 0, results |-> <<>>,
     requiresCorrection |-> FALSE, generations |-> 0, extractions |-> 0,
     validations |-> 0, stored |-> {}, returned |-> "none", failed |-> {}]

\* neither the FACT_VALIDATION evaluator nor its task worker has run
ValIdle ==
    [pc |-> "idle", writer |-> "none", senderId |-> "none", facts |-> <<>>,
     idx |-> 0, validation |-> <<>>, calls |-> 0]   \* validation: the latest

InitFact ==
    /\ val = ValIdle
    /\ factStore = <<>>
    /\ confCall = <<>>
    /\ storeCall = <<>>
    /\ gen = GenIdle
    /\ genCalls = 0

\* an optional value: <<>> is undefined, <<v>> is the value v
Undefined == <<>>
Some(v) == <<v>>

\* what a handler returns: a boolean, or an object with text and error
JsBoolean(b) == [type |-> "boolean", value |-> b]

\* no handler of an action has been called
ActIdle ==
    [pc |-> "idle", op |-> "none", action |-> "none",
     content |-> [text |-> Undefined, action |-> "wrong_action",
                  inReplyTo |-> Undefined],
     hasClient |-> FALSE, sent |-> Undefined, generation |-> "none",
     send |-> "none", apiCalls |-> 0, evaluations |-> 0,
     result |-> JsBoolean(FALSE)]

\* getMessageHistory has not been called
ThreadIdle ==
    [pc |-> "idle", inReplyTo |-> NULL, maxHistory |-> 0, fetched |-> FALSE,
     messages |-> <<>>, result |-> <<>>]

\* a new AlfaFrensAIPost: not running, with a task manager of its own that
\* has no task and is not running
AIPostNew ==
    [isRunning   |-> FALSE,
     taskManager |-> [isRunning |-> FALSE],
     tasks       |-> <<>>,
     intervals   |-> {},
     clock       |-> 0,
     posts       |-> 0,
     calls       |-> 0]

\* no cycle's batches are being processed
RunIdle ==
    [pc        |-> "idle",
     kinds     |-> <<>>,
     batches   |-> <<>>,
     b         |-> 0,
     i         |-> 0,
     started   |-> <<>>,
     ended     |-> <<>>,
     replies   |-> <<>>,
     errors    |-> <<>>,
     irregular |-> 0]

\* a new pipeline: nothing fetched, an empty history
BufInit == [cycles |-> 0, history |-> <<>>, fetched |-> <<>>]

InitUnit ==
    /\ act = ActIdle
    /\ thread = ThreadIdle
    /\ aiPost = AIPostNew
    /\ run = RunIdle
    /\ buf = BufInit

\* no call of extractFacts is in flight
ExtIdle == [pc |-> "idle", content |-> <<>>, result |-> <<>>, facts |-> <<>>]

InitCall == ext = ExtIdle /\ llm = <<>> /\ InitUnit

vars == <<varsEnv, varsPipe, varsLoop, varsMgr, varsObs, varsFact, varsCall>>

Init == InitEnv /\ InitPipe /\ InitLoop /\ InitMgr /\ InitObs /\ InitFact /\ InitCall

Next ==
    \/ Start
    \/ Stop
    \/ \E t \in timers : PollTick(t)
    \/ \E c \in DOMAIN cycles : \E arr \in Arrivals(MaxUserMsgs) : ServerAnswer(c, arr)
    \/ \E c \in DOMAIN cycles : FetchFail(c)
    \/ \E c \in DOMAIN cycles : FetchReturn(c)
    \/ \E c \in DOMAIN cycles : \E ok \in BOOLEAN : GenerateReturn(c, ok)
    \/ \E c \in DOMAIN cycles : \E ok \in BOOLEAN : ServerReply(c, ok)
    \/ \E c \in DOMAIN cycles : SendReturn(c)
    \/ \E t \in timers : PostTick(t)
    \/ \E p \in DOMAIN posts : \E ok \in BOOLEAN : ServerPost(p, ok)
    \/ \E p \in DOMAIN posts : PostReturn(p)

Spec == Init /\ [][Next]_vars

\* a configuration whose userId and username are not those of the account
\* the API key belongs to
ForeignConfigs ==
    { [userId |-> "u9", username |-> <<"z">>, enablePost |-> TRUE,
       postIntervalMin |-> 7200, postIntervalMax |-> 7200] }

InitForeign ==
    /\ InitEnv /\ InitPipeOf(ForeignConfigs) /\ InitLoop /\ InitMgr /\ InitObs
    /\ InitFact /\ InitCall

\* the orchestrator under such a configuration: only the SentMessageRegistry
\* can tell its own messages
SpecForeign == InitForeign /\ [][Next]_vars

\* the same orchestrator when no call of processMessages is made while
\* another one is in flight: every cycle settles within the poll interval
NoOverlap == Cardinality(DOMAIN cycles) <= 1

NextSequential ==
    \/ Start /\ NoOverlap'
    \/ Stop
    \/ \E t \in timers : PollTick(t) /\ NoOverlap'
    \/ \E c \in DOMAIN cycles : \E arr \in Arrivals(MaxUserMsgs) : ServerAnswer(c, arr)
    \/ \E c \in DOMAIN cycles : FetchFail(c)
    \/ \E c \in DOMAIN cycles : FetchReturn(c)
    \/ \E c \in DOMAIN cycles : \E ok \in BOOLEAN : GenerateReturn(c, ok)
    \/ \E c \in DOMAIN cycles : \E ok \in BOOLEAN : ServerReply(c, ok)
    \/ \E c \in DOMAIN cycles : SendReturn(c)
    \/ \E t \in timers : PostTick(t)
    \/ \E p \in DOMAIN posts : \E ok \in BOOLEAN : ServerPost(p, ok)
    \/ \E p \in DOMAIN posts : PostReturn(p)

SpecSequential == Init /\ [][NextSequential]_vars

\* the orchestrator with a quiet channel, to follow its timers: more host
\* calls, and post intervals that differ
InitTimers ==
    /\ InitEnv /\ InitPipeOf(TimerConfigs) /\ InitLoop /\ InitMgr /\ InitObs
    /\ InitFact /\ InitCall

NextTimers ==
    \/ HostStart(MaxTimerCalls)
    \/ HostStop(MaxTimerCalls)
    \/ \E t \in timers : PollTick(t)
    \/ \E c \in DOMAIN cycles : ServerAnswer(c, <<>>)
    \/ \E c \in DOMAIN cycles : FetchFail(c)
    \/ \E c \in DOMAIN cycles : FetchReturn(c)
    \/ \E t \in timers : PostTick(t)
    \/ \E p \in DOMAIN posts : \E ok \in BOOLEAN : ServerPost(p, ok)
    \/ \E p \in DOMAIN posts : PostReturn(p)

SpecTimers == InitTimers /\ [][NextTimers]_vars

(***************************************************************************)
(* AlfaFrensManager: initialize, stop                                      *)
(* One initialize() and one stop() call are in flight at a time.           *)
(***************************************************************************)
\* a call of the manager has settled: returned at once (early), resolved
\* after its steps, or rejected
Returned(call, outcome) == [call |-> call, outcome |-> outcome]

\* the test is left out: initialize() always goes on
AlreadyRunning_Never == FALSE

\* if (this.isRunning) in initialize()
AlreadyRunning == mgrRunning

\* the host calls manager.initialize(): it returns at once when the manager
\* is running, else it goes up to "await cacheManager.get"
MgrInitialize ==
    /\ UNCHANGED <<varsFact, varsCall>>
    /\ hostCalls < MaxHostCalls
    /\ mgrInit = "idle" \/ mgrRunning
    /\ hostCalls' = hostCalls + 1
    /\ IF AlreadyRunning
       THEN /\ mgrReturned' = Returned("initialize", "early")
            /\ UNCHANGED <<mgrRunning, mgrInit>>
       ELSE /\ mgrRunning' = TRUE
            /\ mgrInit' = "cacheGet"
            /\ mgrReturned' = mgrReturned
    /\ UNCHANGED <<varsEnv, varsPipe, timers, nextTimer, cycles, nextCycle,
                   posts, nextPost, mgrLastProcessedTime, cache, mgrStop,
                   restarts, varsObs>>

\* initialize() fails: isRunning is reset and the error is rethrown
MgrInitFailed ==
    /\ mgrRunning' = FALSE
    /\ mgrInit' = "idle"
    /\ mgrReturned' = Returned("initialize", "rejected")

\* what the steps of initialize() up to aiInteraction.start come to: the
\* cache read fails, the registration of the actions fails, or both succeed
InitOutcomes == {"ok", "cacheFailed", "registerFailed"}

\* cacheManager.get settles; the actions are registered (the import is
\* awaited) and aiInteraction.start(pollInterval) is called, which returns
\* at once when the orchestrator is running already
MgrCacheGetReturn(outcome) ==
    /\ UNCHANGED <<varsFact, varsCall>>
    /\ mgrInit = "cacheGet"
    /\ mgrLastProcessedTime' =
           IF outcome = "cacheFailed" THEN mgrLastProcessedTime
           ELSE IF cache # NULL THEN cache ELSE now - FiveMinutes
    /\ IF outcome = "ok"
       THEN /\ mgrRunning' = mgrRunning
            /\ mgrReturned' = mgrReturned
            /\ IF isRunning
               THEN /\ mgrInit' = "posting"
                    /\ UNCHANGED <<isRunning, timers, pollIntervalId,
                                   nextTimer, cycles, nextCycle>>
               ELSE /\ nextCycle <= MaxCycles
                    /\ Cardinality(DOMAIN cycles) < MaxInFlight
                    /\ StartBody("mgr")
                    /\ mgrInit' = "starting"
       ELSE /\ MgrInitFailed
            /\ UNCHANGED <<isRunning, timers, pollIntervalId, nextTimer,
                           cycles, nextCycle>>
    /\ UNCHANGED <<varsEnv, config, postIntervalId, lastProcessedTime,
                   messageHistory, sentMessageIds, posts, nextPost, hostCalls,
                   cache, mgrStop, restarts, varsObs>>

\* the remote handles the initial post of initialize(): appended to the
\* channel (initialize() returns), or refused (initialize() fails)
MgrServerPost(ok) ==
    /\ UNCHANGED <<varsFact, varsCall>>
    /\ mgrInit = "posting"
    /\ IF ok
       THEN /\ channel' = PostMessage("initial")
            /\ now' = now + 1
            /\ mgrInit' = "idle"
            /\ mgrRunning' = mgrRunning
            /\ mgrReturned' = Returned("initialize", "resolved")
       ELSE /\ UNCHANGED varsEnv
            /\ MgrInitFailed
    /\ UNCHANGED <<varsPipe, varsLoop, mgrLastProcessedTime, cache, mgrStop,
                   restarts, varsObs>>

\* the host calls manager.stop(): it returns at once when the manager is not
\* running, else it goes up to "await cacheManager.set"
MgrStop ==
    /\ UNCHANGED <<varsFact, varsCall>>
    /\ hostCalls < MaxHostCalls
    /\ mgrStop.pc = "idle"
    /\ hostCalls' = hostCalls + 1
    /\ IF mgrRunning
       THEN /\ mgrRunning' = FALSE
            /\ mgrStop' = [pc |-> "cacheSet", value |-> mgrLastProcessedTime]
            /\ mgrReturned' = mgrReturned
       ELSE /\ mgrReturned' = Returned("stop", "early")
            /\ UNCHANGED <<mgrRunning, mgrStop>>
    /\ UNCHANGED <<varsEnv, varsPipe, timers, nextTimer, cycles, nextCycle,
                   posts, nextPost, mgrLastProcessedTime, cache, mgrInit,
                   restarts, varsObs>>

\* cacheManager.set settles: on success aiInteraction.stop() is called, on
\* failure stop() rethrows
MgrCacheSetReturn(ok) ==
    /\ UNCHANGED <<varsFact, varsCall>>
    /\ mgrStop.pc = "cacheSet"
    /\ mgrStop' = [pc |-> "idle", value |-> 0]
    /\ IF ok
       THEN /\ cache' = mgrStop.value
            /\ mgrReturned' = Returned("stop", "resolved")
            /\ IF isRunning
               THEN StopBody
               ELSE UNCHANGED <<isRunning, timers, pollIntervalId, postIntervalId>>
       ELSE /\ mgrReturned' = Returned("stop", "rejected")
            /\ UNCHANGED <<cache, isRunning, timers, pollIntervalId,
                           postIntervalId>>
    /\ UNCHANGED <<varsEnv, config, lastProcessedTime, messageHistory,
                   sentMessageIds, nextTimer, cycles, nextCycle, posts,
                   nextPost, hostCalls, mgrRunning, mgrLastProcessedTime,
                   mgrInit, restarts, varsObs>>

\* the host process ends after the manager was stopped, and a new process
\* constructs the manager and its orchestrator anew; the cache and the
\* channel are external and persist
ProcessRestart ==
    /\ UNCHANGED <<varsFact, varsCall>>
    /\ restarts < MaxRestarts
    /\ ~mgrRunning /\ mgrInit = "idle" /\ mgrStop.pc = "idle"
    /\ cache # NULL
    /\ restarts' = restarts + 1
    /\ isRunning' = FALSE
    /\ pollIntervalId' = NULL
    /\ postIntervalId' = NULL
    /\ lastProcessedTime' = now
    /\ messageHistory' = <<>>
    /\ sentMessageIds' = {}
    /\ timers' = {}
    /\ cycles' = <<>>
    /\ posts' = <<>>
    /\ mgrLastProcessedTime' = 0
    /\ lastBatch' = <<>>
    /\ hostCalls' = 0
    /\ mgrReturned' = Returned("none", "none")
    /\ UNCHANGED <<varsEnv, config, nextTimer, nextCycle, nextPost,
                   mgrRunning, cache, mgrInit, mgrStop, fetchLog, persistLog,
                   evalLog, sendLog>>

NextManager ==
    \/ MgrInitialize
    \/ \E outcome \in InitOutcomes : MgrCacheGetReturn(outcome)
    \/ \E ok \in BOOLEAN : MgrServerPost(ok)
    \/ MgrStop
    \/ \E ok \in BOOLEAN : MgrCacheSetReturn(ok)
    \/ ProcessRestart
    \/ \E t \in timers : PollTick(t)
    \/ \E c \in DOMAIN cycles : \E arr \in Arrivals(MaxMgrUserMsgs) : ServerAnswer(c, arr)
    \/ \E c \in DOMAIN cycles : FetchFail(c)
    \/ \E c \in DOMAIN cycles : FetchReturn(c)
    \/ \E c \in DOMAIN cycles : \E ok \in BOOLEAN : GenerateReturn(c, ok)
    \/ \E c \in DOMAIN cycles : \E ok \in BOOLEAN : ServerReply(c, ok)
    \/ \E c \in DOMAIN cycles : SendReturn(c)
    \/ \E t \in timers : PostTick(t)
    \/ \E p \in DOMAIN posts : \E ok \in BOOLEAN : ServerPost(p, ok)
    \/ \E p \in DOMAIN posts : PostReturn(p)

SpecManager == Init /\ [][NextManager]_vars

(***************************************************************************)
(* JavaScript values of a confidence field                                 *)
(* JSON.parse of a model's answer yields a finite number, Infinity (1e999) *)
(* or a string; arithmetic on them yields NaN as well.  A finite number x  *)
(* is the integer x * Scale (fixed point), so that 0.7, 0.69999 and the    *)
(* averages over one, two or three tenths are exact; where the double      *)
(* arithmetic of the source rounds (0.7 - 0.9 * 0.3) the model does not.   *)
(***************************************************************************)
Scale == 6 * 100000

Num(n)  == [t |-> "number", v |-> n, s |-> <<>>]
NaN     == [t |-> "NaN", v |-> 0, s |-> <<>>]
Inf(sg) == [t |-> "Infinity", v |-> sg, s |-> <<>>]
Str(cs) == [t |-> "string", v |-> 0, s |-> cs]

Tenths(k) == Num(k * (Scale \div 10))

Digits == <<"0", "1", "2", "3", "4", "5", "6", "7", "8", "9">>
IsDigit(ch) == \E d \in 1..10 : Digits[d] = ch
DigitVal(ch) == (CHOOSE d \in 1..10 : Digits[d] = ch) - 1

RECURSIVE NatToString(_)
NatToString(n) ==
    IF n < 10 THEN <<Digits[n + 1]>>
    ELSE NatToString(n \div 10) \o <<Digits[(n % 10) + 1]>>

RECURSIVE StripTrailingZeros(_)
StripTrailingZeros(cs) ==
    IF cs # <<>> /\ cs[Len(cs)] = "0"
    THEN StripTrailingZeros(SubSeq(cs, 1, Len(cs) - 1))
    ELSE cs

RECURSIVE StripLeadingZeros(_)
StripLeadingZeros(cs) ==
    IF cs # <<>> /\ Head(cs) = "0" THEN StripLeadingZeros(Tail(cs)) ELSE cs

\* the five decimal places of the fraction f / Scale
FractionDigits(f) ==
    LET d == f \div (Scale \div 100000)
    IN  StripTrailingZeros(
            [i \in 1..5 |-> Digits[((d \div (10 ^ (5 - i))) % 10) + 1]])

\* Number.prototype.toString; "Infinity" and "NaN" are kept as one symbol
\* each, no other text of the model contains their letters
JsToString(x) ==
    CASE x.t = "string" -> x.s
      [] x.t = "NaN" -> <<"NaN">>
      [] x.t = "Infinity" ->
            IF x.v < 0 THEN <<"-", "Infinity">> ELSE <<"Infinity">>
      [] x.t = "number" ->
            LET a    == IF x.v < 0 THEN 0 - x.v ELSE x.v
                frac == FractionDigits(a % Scale)
            IN  (IF x.v < 0 THEN <<"-">> ELSE <<>>)
                \o NatToString(a \div Scale)
                \o (IF frac = <<>> THEN <<>> ELSE <<".">> \o frac)

RECURSIVE DigitsToNat(_)
DigitsToNat(cs) ==
    IF cs = <<>> THEN 0
    ELSE DigitsToNat(SubSeq(cs, 1, Len(cs) - 1)) * 10 + DigitVal(cs[Len(cs)])

\* the value of a fraction, digit by digit (five places are kept)
RECURSIVE FractionValue(_, _)
FractionValue(cs, place) ==
    IF cs = <<>> \/ place > 5 THEN 0
    ELSE DigitVal(Head(cs)) * (Scale \div (10 ^ place))
         + FractionValue(Tail(cs), place + 1)

\* the largest whole number the arithmetic below is exact for; a larger one
\* is read as this one, and a confidence it enters is clamped to 0 as well
MaxWhole == 2147483647 \div (4 * Scale)

WholeValue(cs) ==
    LET digits == StripLeadingZeros(cs)
    IN  IF Len(digits) > 3 THEN MaxWhole
        ELSE IF DigitsToNat(digits) > MaxWhole THEN MaxWhole
        ELSE DigitsToNat(digits)

\* v / 10^n, one decimal place at a time; what is below the last place the
\* model keeps is lost, as it is in the sums the source forms with it
RECURSIVE ShiftRight(_, _)
ShiftRight(v, n) ==
    IF n = 0 \/ v = 0 THEN v ELSE ShiftRight(v \div 10, n - 1)

\* StringToNumber of an unsigned decimal literal without an exponent,
\* divided by 10^n
ParseDecimal(cs, n) ==
    LET dots == {i \in 1..Len(cs) : cs[i] = "."}
    IN  IF \E i \in 1..Len(cs) : ~IsDigit(cs[i]) /\ cs[i] # "." THEN NaN
        ELSE IF Cardinality(dots) > 1 \/ Len(cs) = Cardinality(dots) THEN NaN
        ELSE IF dots = {} THEN Num(ShiftRight(WholeValue(cs) * Scale, n))
        ELSE LET d == CHOOSE i \in dots : TRUE
             IN  Num(ShiftRight(
                     WholeValue(SubSeq(cs, 1, d - 1)) * Scale
                         + FractionValue(SubSeq(cs, d + 1, Len(cs)), 1), n))

\* the mantissa times 10^-n for an exponent part e-n
ParseExponent(mantissa, digits) ==
    IF digits = <<>> \/ (\E i \in 1..Len(digits) : ~IsDigit(digits[i]))
    THEN NaN
    ELSE ParseDecimal(mantissa,
                      IF Len(StripLeadingZeros(digits)) > 2 THEN 100
                      ELSE DigitsToNat(StripLeadingZeros(digits)))

\* StringToNumber of an unsigned decimal literal; of the exponent parts the
\* negative ones (e-n) are read, any other gives NaN in the model
ParseUnsigned(cs) ==
    LET es == {i \in 1..Len(cs) : cs[i] = "e"}
    IN  IF cs = <<"Infinity">> THEN Inf(1)
        ELSE IF es = {} THEN ParseDecimal(cs, 0)
        ELSE LET e == CHOOSE i \in es : \A j \in es : i <= j
             IN  IF e < Len(cs) /\ cs[e + 1] = "-"
                 THEN ParseExponent(SubSeq(cs, 1, e - 1),
                                    SubSeq(cs, e + 2, Len(cs)))
                 ELSE NaN

JsNegate(x) ==
    CASE x.t = "number" -> Num(0 - x.v)
      [] x.t = "Infinity" -> Inf(0 - x.v)
      [] OTHER -> x

\* ToNumber: a string is parsed, a number is itself
JsToNumber(x) ==
    IF x.t # "string" THEN x
    ELSE IF x.s = <<>> THEN Num(0)
    ELSE IF Head(x.s) = "-" THEN JsNegate(ParseUnsigned(Tail(x.s)))
    ELSE ParseUnsigned(x.s)

\* a + b: concatenation as soon as one operand is a string
JsAdd(a, b) ==
    IF a.t = "string" \/ b.t = "string"
    THEN Str(JsToString(a) \o JsToString(b))
    ELSE IF a.t = "NaN" \/ b.t = "NaN" THEN NaN
    ELSE IF a.t = "Infinity" /\ b.t = "Infinity"
         THEN IF a.v = b.v THEN a ELSE NaN
    ELSE IF a.t = "Infinity" THEN a
    ELSE IF b.t = "Infinity" THEN b
    ELSE Num(a.v + b.v)

\* a - b for numbers
JsSub(a, b) == JsAdd(JsToNumber(a), JsNegate(JsToNumber(b)))

\* a / n for a positive integer n
JsDivInt(a, n) ==
    LET x == JsToNumber(a)
    IN  IF x.t = "number" THEN Num(x.v \div n) ELSE x

\* a * 0.3
JsTimesThreeTenths(a) ==
    LET x == JsToNumber(a)
    IN  IF x.t = "number" THEN Num((x.v * 3) \div 10) ELSE x

\* a < b; false as soon as one operand is NaN
JsLess(a, b) ==
    LET x == JsToNumber(a)
        y == JsToNumber(b)
    IN  /\ x.t # "NaN" /\ y.t # "NaN"
        /\ CASE x.t = "number" /\ y.t = "number" -> x.v < y.v
             [] x.t = "Infinity" /\ y.t = "Infinity" -> x.v < y.v
             [] x.t = "Infinity" -> x.v < 0
             [] OTHER -> y.v > 0

\* a >= b; false as soon as one operand is NaN
JsGreaterEq(a, b) ==
    /\ JsToNumber(a).t # "NaN" /\ JsToNumber(b).t # "NaN"
    /\ ~JsLess(a, b)

\* Math.min and Math.max of two numbers: NaN if one of them is NaN
MathMin(a, b) ==
    IF a.t = "NaN" \/ b.t = "NaN" THEN NaN
    ELSE IF JsLess(b, a) THEN b ELSE a

MathMax(a, b) ==
    IF a.t = "NaN" \/ b.t = "NaN" THEN NaN
    ELSE IF JsLess(a, b) THEN b ELSE a

(***************************************************************************)
(* FactValidationManager                                                   *)
(***************************************************************************)
MaxContradictions == 2   \* contradictions handed to calculateFactConfidence
MaxStored == 2           \* fact memories the store holds

AgentId == "agent"                       \* runtime.agentId
SenderIds == {AgentId, "u2"}

\* fact texts are sequences of words
FactTexts == { <<"a", "b">>, <<"b", "a">>, <<"a", "b", "c">> }

\* private confidenceThreshold: number = 0.7
confidenceThreshold == Tenths(7)

\* calculateSemanticSimilarity(text1, text2) > tenths / 10, the Jaccard
\* index of the two word sets compared as a fraction
Words(text) == {text[i] : i \in 1..Len(text)}

SimilarityAbove(text1, text2, tenths) ==
    LET words1 == Words(text1)
        words2 == Words(text2)
    IN  10 * Cardinality(words1 \cap words2)
            > tenths * Cardinality(words1 \cup words2)

\* contradictions.reduce((acc, c) => acc + c.confidence, 0)
RECURSIVE ReduceSum(_, _)
ReduceSum(acc, contradictions) ==
    IF contradictions = <<>> THEN acc
    ELSE ReduceSum(JsAdd(acc, Head(contradictions).confidence),
                   Tail(contradictions))

calculateFactConfidence(senderId, contradictions) ==
    LET base == IF senderId = AgentId THEN Tenths(5 + 2) ELSE Tenths(5)
        confidence ==
            IF Len(contradictions) > 0
            THEN JsSub(base, JsTimesThreeTenths(
                     JsDivInt(ReduceSum(Num(0), contradictions),
                              Len(contradictions))))
            ELSE base
    IN  MathMax(Num(0), MathMin(Num(Scale), confidence))

\* the test is made inclusive: a fact at the threshold is skipped
SkipLowConfidence_Inclusive(confidence) ==
    ~JsLess(confidenceThreshold, confidence)

\* storeFact: if (validation.confidence < this.confidenceThreshold) return
SkipLowConfidence(confidence) == JsLess(confidence, confidenceThreshold)

\* storeFact(fact, validation) when createMemory settles with ok: the store
\* after the call; a rejection of createMemory is caught and logged
StoreFactResult(store, fact, validation, ok) ==
    IF SkipLowConfidence(validation.confidence) \/ ~ok
    THEN store
    ELSE Append(store, [text           |-> fact,
                        confidence     |-> validation.confidence,
                        contradictions |-> validation.contradictions])

\* confidences a Contradiction can carry
ContradictionConfidences ==
    { Tenths(0 - 20), Tenths(8), Tenths(30), Inf(1), Str(<<"0", ".", "9">>) }

ContradictionLists ==
    UNION {[1..k -> [confidence : ContradictionConfidences]] :
              k \in 0..MaxContradictions}

\* confidences a FactValidation handed to storeFact can carry
StoreConfidences ==
    { Num(0), Tenths(5), Num((Scale \div 10) * 7 - 6), Tenths(7), Tenths(10), NaN }

\* calculateFactConfidence is applied to a source and a list of contradictions
CalculateFactConfidence(senderId, contradictions) ==
    /\ confCall' = [senderId       |-> senderId,
                    contradictions |-> contradictions,
                    result         |-> calculateFactConfidence(senderId,
                                                               contradictions)]
    /\ storeCall' = <<>>
    /\ UNCHANGED <<varsEnv, varsPipe, varsLoop, varsMgr, varsObs, varsCall, val,
                   factStore, gen, genCalls>>

\* storeFact is called and settles; it has no path that throws
StoreFact(fact, confidence, ok) ==
    /\ Len(factStore) < MaxStored
    /\ LET validation == [confidence |-> confidence, contradictions |-> <<>>]
       IN  /\ factStore' = StoreFactResult(factStore, fact, validation, ok)
           /\ storeCall' = [confidence |-> confidence,
                            ok         |-> ok,
                            persisted  |-> factStore' # factStore,
                            threw      |-> FALSE]
    /\ confCall' = <<>>
    /\ UNCHANGED <<varsEnv, varsPipe, varsLoop, varsMgr, varsObs, varsCall, val,
                   gen, genCalls>>

NextFact ==
    \/ \E senderId \in SenderIds : \E contradictions \in ContradictionLists :
           CalculateFactConfidence(senderId, contradictions)
    \/ \E fact \in {<<"a", "b">>} : \E confidence \in StoreConfidences :
           \E ok \in BOOLEAN : StoreFact(fact, confidence, ok)

SpecFact == Init /\ [][NextFact]_vars

(***************************************************************************)
(* validateFact                                                            *)
(***************************************************************************)
MemoryCount == 100

\* what the model answers to analyzeContradiction's prompt, parsed; an
\* answer that is not JSON is caught and gives null, as contradicts: false
Analyses ==
    { [contradicts |-> FALSE, confidence |-> Tenths(9)],
      [contradicts |-> TRUE,  confidence |-> Tenths(6)],
      [contradicts |-> TRUE,  confidence |-> Tenths(8)],
      [contradicts |-> TRUE,  confidence |-> Str(<<"0", ".", "9">>)] }

\* analyzeContradiction: the confidence, if the answer counts
analyzeContradiction(analysis) ==
    analysis.contradicts /\ JsLess(Tenths(7), analysis.confidence)

\* getRelevantFacts: positions in the store of the memories with a
\* similarity above 0.5, among the count: 100 memories getMemories returns
getRelevantFacts(fact, store) ==
    LET first == IF Len(store) <= MemoryCount THEN 1
                 ELSE Len(store) - MemoryCount + 1
    IN  SelectSeq([i \in 1..(Len(store) - first + 1) |-> first + i - 1],
                  LAMBDA i : SimilarityAbove(fact, store[i].text, 5))

\* the existing facts detectContradictions asks the model about
Consulted(fact, store) ==
    LET existingFacts == getRelevantFacts(fact, store)
    IN  {existingFacts[k] : k \in
            {k \in 1..Len(existingFacts) :
                SimilarityAbove(fact, store[existingFacts[k]].text, 8)}}

\* detectContradictions, the model answering analyses[i] about store[i]
detectContradictions(fact, store, analyses) ==
    LET existingFacts == getRelevantFacts(fact, store)
        hits == SelectSeq(existingFacts,
                    LAMBDA i : /\ SimilarityAbove(fact, store[i].text, 8)
                               /\ analyzeContradiction(analyses[i]))
    IN  [k \in 1..Len(hits) |->
            [fact         |-> fact,
             existingFact |-> store[hits[k]].text,
             confidence   |-> analyses[hits[k]].confidence]]

\* validateFact(fact, message): contradictions.map(c => c.fact)
validateFact(fact, senderId, store, analyses) ==
    LET contradictions == detectContradictions(fact, store, analyses)
    IN  [confidence     |-> calculateFactConfidence(senderId, contradictions),
         source         |-> senderId,
         contradictions |-> [k \in 1..Len(contradictions) |->
                                contradictions[k].fact]]

(***************************************************************************)
(* generateResponse                                                        *)
(***************************************************************************)
MaxGenCalls == 2   \* calls of generateResponse, one after the other
MaxFacts == 2      \* facts extracted from one draft

\* the claims a draft is made of: one that repeats a stored claim's words and
\* one that shares two words of three with it
DraftFacts == { <<"a", "b">>, <<"a", "b", "c">> }

FactLists == UNION {[1..k -> DraftFacts] : k \in 0..MaxFacts}

\* the test is made inclusive: a fact at 0.7 is flagged
NeedsCorrection_Inclusive(validation) ==
    \/ Len(validation.contradictions) > 0
    \/ ~JsLess(Tenths(7), validation.confidence)

\* validation.contradictions.length > 0 || validation.confidence < 0.7
NeedsCorrection(validation) ==
    \/ Len(validation.contradictions) > 0
    \/ JsLess(validation.confidence, Tenths(7))

\* result.confidence >= 0.7 && result.contradictions.length === 0
Storable(result) ==
    /\ JsGreaterEq(result.confidence, Tenths(7))
    /\ Len(result.contradictions) = 0

\* the store loop from result i on: the first result storeFact is awaited for
NextStorable(results, i) ==
    LET cand == {j \in i..Len(results) : Storable(results[j])}
    IN  IF cand = {} THEN Len(results) + 1
        ELSE CHOOSE j \in cand : \A k \in cand : j <= k

\* the store loop goes on from result i, or is over: return rawResponse
StoreFrom(g, i) ==
    LET j == NextStorable(g.results, i)
    IN  IF j <= Len(g.results)
        THEN [g EXCEPT !.pc = "storing", !.idx = j]
        ELSE [g EXCEPT !.pc = "returned", !.returned = "raw"]

\* the facts are stored whether or not the draft is flagged
AfterValidation_StoreAnyway(g) == StoreFrom(g, 1)

\* if (requiresCorrection): the corrected generation is issued and the
\* function returns from that branch; else the store loop begins
AfterValidation(g) ==
    IF g.requiresCorrection
    THEN [g EXCEPT !.pc = "correcting", !.generations = g.generations + 1]
    ELSE StoreFrom(g, 1)

\* the error is thrown on to the caller
AfterCaught_Rethrow(g) == [g EXCEPT !.pc = "thrown"]

\* catch (error): the error is logged, then return rawResponse
AfterCaught(g) == [g EXCEPT !.pc = "returned", !.returned = "raw"]

\* the corrected text is taken for a new draft and validated again
AfterCorrection_Revalidate(g, ok) ==
    IF ok
    THEN [g EXCEPT !.pc = "extracting", !.extractions = g.extractions + 1]
    ELSE [g EXCEPT !.pc = "returned", !.returned = "raw"]

\* return correctedResponse; a failed generation is caught
AfterCorrection(g, ok) ==
    IF ok
    THEN [g EXCEPT !.pc = "returned", !.returned = "corrected"]
    ELSE AfterCaught(g)

\* generateResponse is called: web search and knowledge lookup (their
\* errors are caught), then the draft generation is issued
GenCall ==
    /\ gen.pc \in {"idle", "returned", "thrown"}
    /\ genCalls < MaxGenCalls
    /\ genCalls' = genCalls + 1
    /\ gen' = [GenIdle EXCEPT !.pc = "drafting", !.generations = 1]
    /\ UNCHANGED <<varsEnv, varsPipe, varsLoop, varsMgr, varsObs, varsCall, val,
                   factStore, confCall, storeCall>>

\* the draft generation settles: extractFacts is called on the draft, or
\* the error (a timeout after 30 s included) leaves generateResponse
DraftReturn(ok) ==
    /\ gen.pc = "drafting"
    /\ gen' = IF ok
              THEN [gen EXCEPT !.pc = "extracting",
                               !.extractions = gen.extractions + 1]
              ELSE [gen EXCEPT !.pc = "thrown"]
    /\ UNCHANGED <<varsEnv, varsPipe, varsLoop, varsMgr, varsObs, varsCall, val,
                   factStore, confCall, storeCall, genCalls>>

\* a step of the call has failed: the failures of one call are kept
Failed(g, step, ok) == IF ok THEN g ELSE [g EXCEPT !.failed = g.failed \cup {step}]

\* extractFacts settles with facts: the array the model answered (ok), or
\* what the fallback finds after a failure of the generation or the parse
ExtractReturn(facts, ok) ==
    /\ gen.pc = "extracting"
    /\ gen' = IF Len(facts) = 0
              THEN [Failed(gen, "extract", ok) EXCEPT
                       !.pc = "returned", !.returned = "raw"]
              ELSE [Failed(gen, "extract", ok) EXCEPT
                       !.pc = "validating", !.facts = facts, !.idx = 1,
                       !.results = <<>>, !.validations = 0,
                       !.requiresCorrection = FALSE]
    /\ UNCHANGED <<varsEnv, varsPipe, varsLoop, varsMgr, varsObs, varsCall, val,
                   factStore, confCall, storeCall, genCalls>>

\* the memories getRelevantFacts gets: none when getMemories fails (caught)
SeenStore(memOk) == IF memOk THEN factStore ELSE <<>>

\* validateFact settles for the fact at idx, validated as a statement of the
\* agent (dummyMessage.senderId = runtime.agentId); after the last fact the
\* corrected generation is issued, or the store loop begins
ValidateReturn(analyses, memOk) ==
    /\ gen.pc = "validating"
    /\ \E validation \in {validateFact(gen.facts[gen.idx], AgentId,
                                       SeenStore(memOk), analyses)} :
       \E g \in {[Failed(gen, "validate", memOk) EXCEPT
                    !.results = Append(gen.results,
                                    [fact           |-> gen.facts[gen.idx],
                                     confidence     |-> validation.confidence,
                                     contradictions |-> validation.contradictions]),
                    !.validations = gen.validations + 1,
                    !.requiresCorrection =
                        gen.requiresCorrection \/ NeedsCorrection(validation)]} :
           gen' = IF gen.idx < Len(gen.facts)
                  THEN [g EXCEPT !.idx = gen.idx + 1]
                  ELSE AfterValidation(g)
    /\ UNCHANGED <<varsEnv, varsPipe, varsLoop, varsMgr, varsObs, varsCall, val,
                   factStore, confCall, storeCall, genCalls>>

\* the corrected generation settles
CorrectReturn(ok) ==
    /\ gen.pc = "correcting"
    /\ gen' = AfterCorrection(Failed(gen, "correct", ok), ok)
    /\ UNCHANGED <<varsEnv, varsPipe, varsLoop, varsMgr, varsObs, varsCall, val,
                   factStore, confCall, storeCall, genCalls>>

\* storeFact settles for the result at idx; a failure of createMemory is
\* caught inside storeFact
StoreReturn(ok) ==
    /\ gen.pc = "storing"
    /\ LET result == gen.results[gen.idx]
       IN  /\ factStore' = StoreFactResult(factStore, result.fact,
                               [confidence     |-> result.confidence,
                                contradictions |-> <<>>], ok)
           /\ gen' = StoreFrom(
                         [Failed(gen, "store", ok) EXCEPT !.stored =
                             IF factStore' # factStore
                             THEN gen.stored \cup {gen.idx} ELSE gen.stored],
                         gen.idx + 1)
    /\ UNCHANGED <<varsEnv, varsPipe, varsLoop, varsMgr, varsObs, varsCall, val,
                   confCall, storeCall, genCalls>>

\* the fact validateFact is in flight for, if any
PendingFact == IF gen.pc = "validating" THEN gen.facts[gen.idx] ELSE <<>>

NextGen ==
    \/ GenCall
    \/ \E ok \in BOOLEAN : DraftReturn(ok)
    \/ \E facts \in FactLists : \E ok \in BOOLEAN : ExtractReturn(facts, ok)
    \/ \E memOk \in BOOLEAN :
           \E analyses \in [Consulted(PendingFact, SeenStore(memOk)) -> Analyses] :
               ValidateReturn(analyses, memOk)
    \/ \E ok \in BOOLEAN : CorrectReturn(ok)
    \/ \E ok \in BOOLEAN : StoreReturn(ok)

SpecGen == Init /\ [][NextGen]_vars

\* a call generateResponse awaits settles; one is awaited at a time
GenSettle ==
    \/ \E ok \in BOOLEAN : DraftReturn(ok)
    \/ \E facts \in FactLists : \E ok \in BOOLEAN : ExtractReturn(facts, ok)
    \/ \E memOk \in BOOLEAN :
           \E analyses \in [Consulted(PendingFact, SeenStore(memOk)) -> Analyses] :
               ValidateReturn(analyses, memOk)
    \/ \E ok \in BOOLEAN : CorrectReturn(ok)
    \/ \E ok \in BOOLEAN : StoreReturn(ok)

\* every external call generateResponse awaits settles
SpecGenFair == SpecGen /\ WF_vars(GenSettle)

\* the calls generateResponse awaits that settle although the generation
\* service never answers: the draft and the corrected generation go through
\* generateLLMResponse, which races them against a 30 s timer, and storeFact
\* calls the memory store.  extractFacts and validateFact call generateText
\* themselves, without a timer.
GenBounded ==
    \/ \E ok \in BOOLEAN : DraftReturn(ok)
    \/ \E ok \in BOOLEAN : CorrectReturn(ok)
    \/ \E ok \in BOOLEAN : StoreReturn(ok)

\* the memory store settles and every timer fires; the generation service
\* answers or not
SpecGenDeadline == SpecGen /\ WF_vars(GenBounded)

(***************************************************************************)
(* The FACT_VALIDATION evaluator and task worker                           *)
(*                                                                         *)
(* Both validate a fact and hand it to storeFact when the confidence is at *)
(* least 0.7.  SpecWriters runs them against one fact store, one call     *)
(* after the other; generateResponse, the third writer, runs in SpecGen.   *)
(***************************************************************************)
MaxValCalls == 3      \* calls of the evaluator handler and the task worker
MaxFactMemories == 3  \* fact memories the store holds under SpecWriters

\* what the model answers to the writers' validateFact: no conflict, a
\* conflict with a number, or one with a string in exponent notation
JudgedAnalyses ==
    { [contradicts |-> FALSE, confidence |-> Tenths(9)],
      [contradicts |-> TRUE,  confidence |-> Tenths(8)],
      [contradicts |-> TRUE,  confidence |-> Str(<<"7", "1", "e", "-", "2">>)],
      [contradicts |-> TRUE,  confidence |-> Str(<<"9">>)] }

HandlerFacts == UNION {[1..k -> FactTexts] : k \in 0..MaxFacts}

\* if (validation.confidence >= 0.7)
MeetsThreshold(validation) == JsGreaterEq(validation.confidence, Tenths(7))

\* the loop of the handler goes on with the next fact, or the call returns;
\* the worker has one fact and deletes its task
ValAdvance(v) ==
    IF v.idx < Len(v.facts)
    THEN [v EXCEPT !.pc = "validating", !.idx = v.idx + 1]
    ELSE [v EXCEPT !.pc = "returned"]

\* the evaluator's handler is called on a message: extractFacts is awaited
FactHandlerCall(senderId) ==
    /\ val.pc \in {"idle", "returned"}
    /\ val.calls < MaxValCalls
    /\ val' = [ValIdle EXCEPT !.pc = "extracting", !.writer = "handler",
                              !.senderId = senderId,
                              !.calls = val.calls + 1]
    /\ UNCHANGED <<varsEnv, varsPipe, varsLoop, varsMgr, varsObs, varsCall,
                   factStore, confCall, storeCall, gen, genCalls>>

\* extractFacts settles (it catches its own failures): the loop begins
FactExtractReturn(facts) ==
    /\ val.pc = "extracting"
    /\ val' = IF facts = <<>>
              THEN [val EXCEPT !.pc = "returned"]
              ELSE [val EXCEPT !.pc = "validating", !.facts = facts,
                               !.idx = 1]
    /\ UNCHANGED <<varsEnv, varsPipe, varsLoop, varsMgr, varsObs, varsCall,
                   factStore, confCall, storeCall, gen, genCalls>>

\* the task worker's execute is called with a task: validateFact is awaited
\* for metadata.fact as a statement of metadata.source
FactWorkerExecute(fact, source) ==
    /\ val.pc \in {"idle", "returned"}
    /\ val.calls < MaxValCalls
    /\ val' = [ValIdle EXCEPT !.pc = "validating", !.writer = "worker",
                              !.senderId = source, !.facts = <<fact>>,
                              !.idx = 1, !.calls = val.calls + 1]
    /\ UNCHANGED <<varsEnv, varsPipe, varsLoop, varsMgr, varsObs, varsCall,
                   factStore, confCall, storeCall, gen, genCalls>>

\* validateFact settles for the fact at idx: storeFact is awaited for it, or
\* the fact is passed over
FactValidateReturn(analyses, memOk) ==
    /\ val.pc = "validating"
    /\ \E validation \in {validateFact(val.facts[val.idx], val.senderId,
                                       SeenStore(memOk), analyses)} :
           val' = IF MeetsThreshold(validation)
                  THEN [val EXCEPT !.pc = "storing",
                                   !.validation = <<validation>>]
                  ELSE ValAdvance([val EXCEPT !.validation = <<validation>>])
    /\ UNCHANGED <<varsEnv, varsPipe, varsLoop, varsMgr, varsObs, varsCall,
                   factStore, confCall, storeCall, gen, genCalls>>

\* storeFact settles for the fact at idx
FactStoreReturn(ok) ==
    /\ val.pc = "storing"
    /\ Len(factStore) < MaxFactMemories
    /\ factStore' = StoreFactResult(factStore, val.facts[val.idx],
                                    val.validation[1], ok)
    /\ val' = ValAdvance(val)
    /\ UNCHANGED <<varsEnv, varsPipe, varsLoop, varsMgr, varsObs, varsCall,
                   confCall, storeCall, gen, genCalls>>

\* the fact the writer's validateFact is in flight for, if any
ValPendingFact == IF val.pc = "validating" THEN val.facts[val.idx] ELSE <<>>

NextWriters ==
    \/ \E senderId \in SenderIds : FactHandlerCall(senderId)
    \/ \E facts \in HandlerFacts : FactExtractReturn(facts)
    \/ \E fact \in FactTexts : \E source \in SenderIds :
           FactWorkerExecute(fact, source)
    \/ \E memOk \in BOOLEAN :
           \E analyses \in [Consulted(ValPendingFact, SeenStore(memOk))
                               -> JudgedAnalyses] :
               FactValidateReturn(analyses, memOk)
    \/ \E ok \in BOOLEAN : FactStoreReturn(ok)

SpecWriters == Init /\ [][NextWriters]_vars

(***************************************************************************)
(* FactValidationManager.extractFacts and its heuristic fallback           *)
(*                                                                         *)
(* A text is a sequence of characters.  SpecFallback applies the fallback  *)
(* to texts made of a few words and sentence terminators; SpecExtract      *)
(* calls extractFacts and lets the generation fail or answer any short     *)
(* sequence of JSON tokens.                                                *)
(***************************************************************************)
MaxTokens == 3        \* words and terminators of a text given to the fallback
MaxDraftTokens == 1   \* words and terminators of a text given to extractFacts
MaxResultLen == 5     \* tokens of the text the generation answers

Terminators == {".", "!", "?"}

\* the words texts are made of
Vocabulary ==
    { <<"W", "h", "a", "t">>, <<"H", "o", "w", "e", "v", "e", "r">>, <<"i", "t">>, <<"t", "h", "i", "n", "k">>, <<"f", "o", "u", "n", "d", "e", "d">>, <<"1", "9", "9", "9">> }

\* punctuation of the texts: the '!' behaves as the '.'
Punctuation == { <<".">>, <<"?">> }

\* words are separated by one space; punctuation follows without one
RECURSIVE JoinTokens(_)
JoinTokens(ts) ==
    IF ts = <<>> THEN <<>>
    ELSE LET init == JoinTokens(SubSeq(ts, 1, Len(ts) - 1))
             t    == ts[Len(ts)]
         IN  IF t \in Punctuation \/ init = <<>> THEN init \o t
             ELSE init \o <<" ">> \o t

Texts(n) ==
    { JoinTokens(ts) : ts \in UNION {[1..k -> Vocabulary \cup Punctuation] : k \in 0..n} }

\* String.prototype.trim
RECURSIVE TrimStart(_)
TrimStart(s) ==
    IF s # <<>> /\ Head(s) = " " THEN TrimStart(Tail(s)) ELSE s

RECURSIVE TrimEnd(_)
TrimEnd(s) ==
    IF s # <<>> /\ s[Len(s)] = " " THEN TrimEnd(SubSeq(s, 1, Len(s) - 1)) ELSE s

StringTrim(s) == TrimEnd(TrimStart(s))

\* String.prototype.toLowerCase, on the capitals the texts have
LowerCaseOf(ch) ==
    CASE ch = "W" -> "w"
      [] ch = "H" -> "h"
      [] OTHER    -> ch

ToLowerCase(s) == [i \in 1..Len(s) |-> LowerCaseOf(s[i])]

StartsWith(s, prefix) ==
    /\ Len(s) >= Len(prefix)
    /\ SubSeq(s, 1, Len(prefix)) = prefix

Includes(s, part) ==
    \E i \in 1..(Len(s) - Len(part) + 1) : SubSeq(s, i, i + Len(part) - 1) = part

\* content.split(/[.!?]+/): the pieces between runs of terminators, the empty
\* pieces at both ends included
RECURSIVE SkipTerminators(_)
SkipTerminators(s) ==
    IF s # <<>> /\ Head(s) \in Terminators THEN SkipTerminators(Tail(s)) ELSE s

RECURSIVE StringSplit(_, _)
StringSplit(s, piece) ==
    IF s = <<>> THEN <<piece>>
    ELSE IF Head(s) \in Terminators
         THEN <<piece>> \o StringSplit(SkipTerminators(Tail(s)), <<>>)
         ELSE StringSplit(Tail(s), Append(piece, Head(s)))

\* .map(s => s.trim()).filter(s => s.length > 0)
Sentences(content) ==
    LET pieces  == StringSplit(content, <<>>)
        trimmed == [i \in 1..Len(pieces) |-> StringTrim(pieces[i])]
    IN  SelectSeq(trimmed, LAMBDA s : Len(s) > 0)

Interrogatives ==
    { <<"w", "h", "a", "t">>,
      <<"w", "h", "o">>,
      <<"w", "h", "e", "n">>,
      <<"w", "h", "e", "r", "e">>,
      <<"w", "h", "y">>,
      <<"h", "o", "w">> }

OpinionWords ==
    { <<"t", "h", "i", "n", "k">>,
      <<"f", "e", "e", "l">>,
      <<"b", "e", "l", "i", "e", "v", "e">>,
      <<"o", "p", "i", "n", "i", "o", "n">>,
      <<"s", "e", "e", "m">>,
      <<"a", "p", "p", "e", "a", "r">>,
      <<"l", "i", "k", "e", "l", "y">>,
      <<"p", "o", "s", "s", "i", "b", "l", "y">>,
      <<"m", "a", "y", "b", "e">>,
      <<"p", "e", "r", "h", "a", "p", "s">> }

\* the alternatives of the fact-signal expression that are words
FactSignalWords ==
    { <<"f", "o", "u", "n", "d", "e", "d">>,
      <<"c", "r", "e", "a", "t", "e", "d">>,
      <<"e", "s", "t", "a", "b", "l", "i", "s", "h", "e", "d">>,
      <<"l", "a", "u", "n", "c", "h", "e", "d">>,
      <<"d", "e", "v", "e", "l", "o", "p", "e", "d">>,
      <<"b", "u", "i", "l", "t">>,
      <<"d", "e", "s", "i", "g", "n", "e", "d">>,
      <<"i", "s", " ", "a">>,
      <<"w", "a", "s", " ", "b", "o", "r", "n">>,
      <<"l", "o", "c", "a", "t", "e", "d">>,
      <<"h", "e", "a", "d", "q", "u", "a", "r", "t", "e", "r", "e", "d">> }

\* /\d{4}/
HasFourDigits(s) ==
    \E i \in 1..(Len(s) - 3) : \A k \in 0..3 : IsDigit(s[i + k])

\* /in \d{4}/
HasInAndFourDigits(s) ==
    \E i \in 1..(Len(s) - 6) :
        /\ SubSeq(s, i, i + 2) = <<"i", "n", " ">>
        /\ \A k \in 3..6 : IsDigit(s[i + k])

isQuestion(sentence) ==
    \/ Includes(sentence, <<"?">>)
    \/ \E w \in Interrogatives : StartsWith(ToLowerCase(sentence), w)

\* the expressions are tested without regard to case (flag i)
hasOpinionWords(sentence) ==
    \E w \in OpinionWords : Includes(ToLowerCase(sentence), w)

hasFactSignals(sentence) ==
    \/ HasInAndFourDigits(ToLowerCase(sentence))
    \/ HasFourDigits(sentence)
    \/ \E w \in FactSignalWords : Includes(ToLowerCase(sentence), w)

\* return !isQuestion && !hasOpinionWords && hasFactSignals
PotentialFact(sentence) ==
    ~isQuestion(sentence) /\ ~hasOpinionWords(sentence) /\ hasFactSignals(sentence)

extractFactsFallback(content) ==
    SelectSeq(Sentences(content), PotentialFact)

\* ---- the text the generation answers, as JSON tokens
Token(kind, text) == [kind |-> kind, text |-> text]

JsonTokens ==
    { Token("[", <<>>), Token("]", <<>>), Token(",", <<>>),
      Token("string", <<"a">>), Token("string", <<"b">>),
      Token("string", <<" ">>) }

Results == UNION {[1..k -> JsonTokens] : k \in 0..MaxResultLen}

\* result.match(/\[.*\]/s): from the first '[' to the last ']' after it;
\* <<>> stands for null (a match has two tokens at least)
RegexMatchArray(result) ==
    LET opens  == {i \in 1..Len(result) : result[i].kind = "["}
        closes == {i \in 1..Len(result) : result[i].kind = "]"}
    IN  IF opens = {} THEN <<>>
        ELSE LET first == CHOOSE i \in opens : \A j \in opens : i <= j
                 after == {i \in closes : i > first}
             IN  IF after = {} THEN <<>>
                 ELSE SubSeq(result, first,
                             CHOOSE i \in after : \A j \in after : j <= i)

\* JSON values
JsonString(text) == [type |-> "string", text |-> text, items |-> <<>>]
JsonArray(items) == [type |-> "array", text |-> <<>>, items |-> items]
SyntaxError == [ok |-> FALSE, value |-> JsonArray(<<>>), next |-> 0]
Parsed(value, next) == [ok |-> TRUE, value |-> value, next |-> next]

\* JSON.parse, by recursive descent: a value is a string or an array of values
RECURSIVE ParseValue(_, _)
RECURSIVE ParseElements(_, _, _)
ParseValue(toks, i) ==
    IF i > Len(toks) THEN SyntaxError
    ELSE IF toks[i].kind = "string" THEN Parsed(JsonString(toks[i].text), i + 1)
    ELSE IF toks[i].kind = "["
         THEN IF i + 1 <= Len(toks) /\ toks[i + 1].kind = "]"
              THEN Parsed(JsonArray(<<>>), i + 2)
              ELSE ParseElements(toks, i + 1, <<>>)
    ELSE SyntaxError

\* after an element v of an array: a comma and the next element, or the end
AfterElement(toks, v, items) ==
    IF ~v.ok \/ v.next > Len(toks) THEN SyntaxError
    ELSE IF toks[v.next].kind = ","
         THEN ParseElements(toks, v.next + 1, Append(items, v.value))
    ELSE IF toks[v.next].kind = "]"
         THEN Parsed(JsonArray(Append(items, v.value)), v.next + 1)
    ELSE SyntaxError

ParseElements(toks, i, items) == AfterElement(toks, ParseValue(toks, i), items)

\* the whole text is one value
WholeText(toks, v) == IF v.ok /\ v.next = Len(toks) + 1 THEN v ELSE SyntaxError

JSONParse(toks) == WholeText(toks, ParseValue(toks, 1))

\* the filter keeps every string that has a character
ValidFact_NonEmpty(fact) ==
    fact.type = "string" /\ Len(fact.text) > 0

\* typeof fact === 'string' && fact.trim().length > 0
ValidFact(fact) ==
    fact.type = "string" /\ Len(StringTrim(fact.text)) > 0

\* the strings of a list of JSON values
TextsOf(values) == [i \in 1..Len(values) |-> values[i].text]

\* what extractFacts returns once JSON.parse has settled on the match
FactsOfParsed(content, facts) ==
    IF ~facts.ok THEN extractFactsFallback(content)
    ELSE IF facts.value.type # "array" THEN extractFactsFallback(content)
    ELSE TextsOf(SelectSeq(facts.value.items, ValidFact))

\* what extractFacts returns once the expression has been matched
FactsOfMatch(content, jsonMatch) ==
    IF jsonMatch = <<>> THEN extractFactsFallback(content)
    ELSE FactsOfParsed(content, JSONParse(jsonMatch))

\* what extractFacts returns when generateText answers result
FactsOfResult(content, result) == FactsOfMatch(content, RegexMatchArray(result))

\* extractFacts(content) is called; generateText is awaited
ExtractFactsCall(content) ==
    /\ ext.pc = "idle"
    /\ ext' = [pc |-> "generating", content |-> content, result |-> <<>>,
               facts |-> <<>>]
    /\ UNCHANGED <<varsEnv, varsPipe, varsLoop, varsMgr, varsObs, varsFact, llm,
                   varsUnit>>

\* generateText rejects: catch (error), the fallback
GenerateTextFail ==
    /\ ext.pc = "generating"
    /\ ext' = [ext EXCEPT !.pc = "returned",
                          !.facts = extractFactsFallback(ext.content)]
    /\ UNCHANGED <<varsEnv, varsPipe, varsLoop, varsMgr, varsObs, varsFact, llm,
                   varsUnit>>

\* generateText answers result
GenerateTextReturn(result) ==
    /\ ext.pc = "generating"
    /\ ext' = [ext EXCEPT !.pc = "returned", !.result = result,
                          !.facts = FactsOfResult(ext.content, result)]
    /\ UNCHANGED <<varsEnv, varsPipe, varsLoop, varsMgr, varsObs, varsFact, llm,
                   varsUnit>>

NextExtract ==
    \/ ext.pc = "idle" /\ \E content \in Texts(MaxDraftTokens) : ExtractFactsCall(content)
    \/ GenerateTextFail
    \/ ext.pc = "generating" /\ \E result \in Results : GenerateTextReturn(result)

SpecExtract == Init /\ [][NextExtract]_vars

\* extractFactsFallback(content) is applied
ExtractFactsFallback(content) ==
    /\ ext.pc = "idle"
    /\ ext' = [pc |-> "fallback", content |-> content, result |-> <<>>,
               facts |-> extractFactsFallback(content)]
    /\ UNCHANGED <<varsEnv, varsPipe, varsLoop, varsMgr, varsObs, varsFact, llm,
                   varsUnit>>

NextFallback ==
    ext.pc = "idle" /\ \E content \in Texts(MaxTokens) : ExtractFactsFallback(content)

SpecFallback == Init /\ [][NextFallback]_vars

(***************************************************************************)
(* generateLLMResponse: the generation raced against a timer, and          *)
(* generatePostContent, which calls it                                     *)
(*                                                                         *)
(* Each call has its own timer and its own request; neither is cancelled   *)
(* when the other wins.  SpecLLM lets the two events of a call happen in   *)
(* any order, or the request never; SpecLLMFair adds that an armed timer   *)
(* fires.                                                                  *)
(***************************************************************************)
MaxLLMCalls == 2     \* calls of generateLLMResponse

\* new Error("LLM request timed out")
TimedOutMessage == <<"L", "L", "M", " ", "r", "e", "q", "u", "e", "s", "t", " ", "t", "i", "m", "e", "d", " ", "o", "u", "t">>

\* messages of the errors the generation rejects with
ProviderErrors ==
    { <<"i", "n", "v", "a", "l", "i", "d", " ", "a", "p", "i", " ", "k", "e", "y">>,
      <<"g", "a", "t", "e", "w", "a", "y", " ", "t", "i", "m", "e", "o", "u", "t">>,
      <<"n", "e", "t", "w", "o", "r", "k">> }

\* texts the generation resolves with
GeneratedTexts == { <<"o", "k">> }

\* return "I'm sorry, I couldn't generate a post at this time."
FallbackPost == <<"s", "o", "r", "r", "y">>

\* the call sites: generatePostContent catches, the draft of generateResponse
\* is awaited outside any try
Sites == {"post", "response"}

\* the branch of the catch block that logs the error
ErrorBranch(errorMessage) ==
    IF \/ Includes(errorMessage, <<"a", "u", "t", "h", "e", "n", "t", "i", "c", "a", "t", "i", "o", "n">>)
       \/ Includes(errorMessage, <<"a", "p", "i", " ", "k", "e", "y">>)
    THEN "authentication"
    ELSE IF Includes(errorMessage, <<"t", "i", "m", "e", "o", "u", "t">>)
         THEN "timeout"
         ELSE "error"

\* the race is settled by a result: generateLLMResponse returns it, and so
\* does generatePostContent
SettleResult(call, text) ==
    [call EXCEPT !.pc = "returned", !.result = text]

\* the race is settled by an error: it is logged and thrown again;
\* generatePostContent catches it and returns the fallback text
SettleError(call, errorMessage) ==
    [call EXCEPT !.pc = IF call.site = "post" THEN "returned" ELSE "thrown",
                 !.error = errorMessage,
                 !.branch = ErrorBranch(errorMessage),
                 !.result = IF call.site = "post" THEN FallbackPost ELSE <<>>]

\* an event settles the call whenever it comes
AfterRace_LastWins(call, settled) == settled

\* Promise.race: an event that comes after the race was settled changes
\* nothing
AfterRace(call, settled) == IF call.pc = "racing" THEN settled ELSE call

\* generateLLMResponse is called: the timer is armed, generateText is called,
\* the race is awaited
LLMCall(site) ==
    /\ Len(llm) < MaxLLMCalls
    /\ llm' = Append(llm, [site |-> site, pc |-> "racing", timer |-> "armed",
                           request |-> "pending", answer |-> <<>>,
                           error |-> <<>>, branch |-> "none", result |-> <<>>])
    /\ UNCHANGED <<varsEnv, varsPipe, varsLoop, varsMgr, varsObs, varsFact, ext,
                   varsUnit>>

\* generateText resolves with text
GenerateTextResolve(c, text) ==
    /\ llm[c].request = "pending"
    /\ llm' = [llm EXCEPT ![c] =
                  AfterRace([llm[c] EXCEPT !.request = "resolved", !.answer = text],
                            SettleResult([llm[c] EXCEPT !.request = "resolved",
                                                        !.answer = text], text))]
    /\ UNCHANGED <<varsEnv, varsPipe, varsLoop, varsMgr, varsObs, varsFact, ext,
                   varsUnit>>

\* generateText rejects with an error of message errorMessage
GenerateTextReject(c, errorMessage) ==
    /\ llm[c].request = "pending"
    /\ llm' = [llm EXCEPT ![c] =
                  AfterRace([llm[c] EXCEPT !.request = "rejected",
                                           !.answer = errorMessage],
                            SettleError([llm[c] EXCEPT !.request = "rejected",
                                                       !.answer = errorMessage],
                                        errorMessage))]
    /\ UNCHANGED <<varsEnv, varsPipe, varsLoop, varsMgr, varsObs, varsFact, ext,
                   varsUnit>>

\* the timer of the call fires: reject(new Error("LLM request timed out"))
TimerFires(c) ==
    /\ llm[c].timer = "armed"
    /\ llm' = [llm EXCEPT ![c] =
                  AfterRace([llm[c] EXCEPT !.timer = "fired"],
                            SettleError([llm[c] EXCEPT !.timer = "fired"],
                                        TimedOutMessage))]
    /\ UNCHANGED <<varsEnv, varsPipe, varsLoop, varsMgr, varsObs, varsFact, ext,
                   varsUnit>>

NextLLM ==
    \/ \E site \in Sites : LLMCall(site)
    \/ \E c \in DOMAIN llm : \E text \in GeneratedTexts : GenerateTextResolve(c, text)
    \/ \E c \in DOMAIN llm : \E errorMessage \in ProviderErrors :
           GenerateTextReject(c, errorMessage)
    \/ \E c \in DOMAIN llm : TimerFires(c)

SpecLLM == Init /\ [][NextLLM]_vars

\* the timers of the event loop fire
SpecLLMFair == SpecLLM /\ WF_vars(\E c \in DOMAIN llm : TimerFires(c))

(***************************************************************************)
(* The actions a host can invoke: sendAlfaFrensMessageAction and           *)
(* createAlfaFrensPostAction (actions.ts), ALFAFRENS_CREATE_POST and       *)
(* ALFAFRENS_RESPOND of createAlfaFrensActions (extensions/actions)        *)
(***************************************************************************)
\* !x of an optional string: undefined and '' are falsy
Falsy(opt) == opt = Undefined \/ opt[1] = <<>>

\* message.content of the Memory a handler is called with
MessageTexts == {Undefined, Some(<<>>), Some(<<"h", "i">>)}
ActionNames == {"alfafrens_send_message", "alfafrens_create_post", "wrong_action"}
ReplyTargets == {Undefined, Some("m1")}
Contents == [text : MessageTexts, action : ActionNames, inReplyTo : ReplyTargets]

\* the two actions of actions.ts and the two of createAlfaFrensActions
PluginActions == {"sendAlfaFrensMessageAction", "createAlfaFrensPostAction"}
RegisteredActions == {"ALFAFRENS_CREATE_POST", "ALFAFRENS_RESPOND"}

\* sendAlfaFrensMessageAction.validate: if (!content?.text) return false
sendAlfaFrensMessageAction_validate(content) == ~Falsy(content.text)

\* createAlfaFrensPostAction.validate: the same test
createAlfaFrensPostAction_validate(content) == ~Falsy(content.text)

\* validate of an action of actions.ts is called: it has no await
ValidateCall(action, content) ==
    /\ act.pc = "idle"
    /\ act' = [ActIdle EXCEPT
                  !.pc = "returned", !.op = "validate", !.action = action,
                  !.content = content,
                  !.result = JsBoolean(
                      IF action = "sendAlfaFrensMessageAction"
                      THEN sendAlfaFrensMessageAction_validate(content)
                      ELSE createAlfaFrensPostAction_validate(content))]
    /\ UNCHANGED <<varsEnv, varsPipe, varsLoop, varsMgr, varsObs, varsFact, ext,
                   llm, thread, aiPost, run, buf>>

\* the catch block of a handler returns true instead of false
HandlerCaught_True(a) == [a EXCEPT !.pc = "returned", !.result = JsBoolean(TRUE)]

\* catch (error) of a handler: the error is logged, return false
HandlerCaught(a) == [a EXCEPT !.pc = "returned", !.result = JsBoolean(FALSE)]

\* if (!client) return false
ClientNotFound(a) == [a EXCEPT !.pc = "returned", !.result = JsBoolean(FALSE)]

\* AlfaFrensManager.sendMessage / createPost is called with content: reading
\* params.content.length of undefined throws before the gateway is called,
\* and the handler catches it; else the request goes to the gateway
ManagerSend(a, content) ==
    IF content = Undefined
    THEN HandlerCaught([a EXCEPT !.sent = content])
    ELSE [a EXCEPT !.pc = "sending", !.sent = content,
                   !.apiCalls = a.apiCalls + 1]

\* handler of an action of actions.ts is called, with or without an
\* AlfaFrensManager among runtime.clients
HandlerCall(action, content, hasClient) ==
    /\ act.pc = "idle"
    /\ LET a == [ActIdle EXCEPT !.op = "handler", !.action = action,
                                !.content = content, !.hasClient = hasClient]
       IN  act' = IF ~hasClient THEN ClientNotFound(a)
                  ELSE ManagerSend(a, content.text)
    /\ UNCHANGED <<varsEnv, varsPipe, varsLoop, varsMgr, varsObs, varsFact, ext,
                   llm, thread, aiPost, run, buf>>

\* handler of ALFAFRENS_CREATE_POST is called: content.text, or else what
\* generatePostContent returns; handler of ALFAFRENS_RESPOND is called:
\* getMessageHistory, which catches its errors, is awaited first
RegisteredHandlerCall(action, content) ==
    /\ act.pc = "idle"
    /\ LET a == [ActIdle EXCEPT !.op = "handler", !.action = action,
                                !.content = content, !.hasClient = TRUE]
       IN  act' = IF action = "ALFAFRENS_RESPOND"
                  THEN [a EXCEPT !.pc = "history"]
                  ELSE IF Falsy(content.text)
                       THEN [a EXCEPT !.pc = "generating"]
                       ELSE ManagerSend(a, content.text)
    /\ UNCHANGED <<varsEnv, varsPipe, varsLoop, varsMgr, varsObs, varsFact, ext,
                   llm, thread, aiPost, run, buf>>

\* getMessageHistory has returned: content.text, or else what
\* generateResponse returns
HistoryReturn ==
    /\ act.pc = "history"
    /\ act' = IF Falsy(act.content.text)
              THEN [act EXCEPT !.pc = "generating"]
              ELSE ManagerSend(act, act.content.text)
    /\ UNCHANGED <<varsEnv, varsPipe, varsLoop, varsMgr, varsObs, varsFact, ext,
                   llm, thread, aiPost, run, buf>>

\* the generation settles. generatePostContent returns the generated text
\* or, when the generation failed, its fallback sentence; generateResponse
\* returns the text or throws, which the handler catches
GenerationReturn(ok, text) ==
    /\ act.pc = "generating"
    /\ act' =
          IF ok
          THEN ManagerSend([act EXCEPT !.generation = "ok"], Some(text))
          ELSE IF act.action = "ALFAFRENS_CREATE_POST"
               THEN ManagerSend([act EXCEPT !.generation = "failed"],
                                Some(FallbackPost))
               ELSE HandlerCaught([act EXCEPT !.generation = "failed"])
    /\ UNCHANGED <<varsEnv, varsPipe, varsLoop, varsMgr, varsObs, varsFact, ext,
                   llm, thread, aiPost, run, buf>>

\* the gateway answers the request: the manager returns the message, or it
\* logs the error and throws it again, and the handler catches it
GatewayReturn(ok) ==
    /\ act.pc = "sending"
    /\ act' = IF ok
              THEN [act EXCEPT !.pc = "returned", !.send = "ok",
                               !.result = JsBoolean(TRUE)]
              ELSE HandlerCaught([act EXCEPT !.send = "failed"])
    /\ UNCHANGED <<varsEnv, varsPipe, varsLoop, varsMgr, varsObs, varsFact, ext,
                   llm, thread, aiPost, run, buf>>

NextActions ==
    \/ act.pc = "idle" /\ \E action \in PluginActions : \E content \in Contents :
           ValidateCall(action, content)
    \/ act.pc = "idle" /\ \E action \in PluginActions : \E content \in Contents :
           \E hasClient \in BOOLEAN : HandlerCall(action, content, hasClient)
    \/ act.pc = "idle" /\ \E action \in RegisteredActions : \E content \in Contents :
           RegisteredHandlerCall(action, content)
    \/ HistoryReturn
    \/ \E ok \in BOOLEAN : \E text \in GeneratedTexts : GenerationReturn(ok, text)
    \/ \E ok \in BOOLEAN : GatewayReturn(ok)

SpecActions == Init /\ [][NextActions]_vars

(***************************************************************************)
(* getMessageHistory (extensions/actions): the thread of a reply           *)
(***************************************************************************)
MaxThreadMsgs == 3       \* messages of the channel a fetch can return
DefaultMaxHistory == 5   \* maxHistory: number = 5

\* the values maxHistory is given
MaxHistories == {2, DefaultMaxHistory}

\* ids of the messages of the channel: a message's id is its position in
\* creation order; NULL stands for an absent inReplyTo / replyTo
ThreadMessageIds == 1..MaxThreadMsgs

RECURSIVE AscendingSeq(_)
AscendingSeq(S) ==
    IF S = {} THEN <<>>
    ELSE LET x == CHOOSE y \in S : \A z \in S : y <= z
         IN  <<x>> \o AscendingSeq(S \ {x})

\* what client.getMessages can resolve with: some of the messages of the
\* channel, in creation order, each replying to any message or to none
FetchedMessages ==
    UNION { { [k \in 1..Cardinality(S) |->
                  [id |-> AscendingSeq(S)[k], replyTo |-> r[AscendingSeq(S)[k]]]] :
              r \in [S -> {NULL} \cup ThreadMessageIds] } :
            S \in SUBSET ThreadMessageIds }

\* messages.find(m => m.id === id)
RECURSIVE ArrayFind(_, _)
ArrayFind(messages, id) ==
    IF messages = <<>> THEN Undefined
    ELSE IF Head(messages).id = id THEN Some(Head(messages))
    ELSE ArrayFind(Tail(messages), id)

\* the message is added at the end of the thread
Unshift_Push(thr, message) == Append(thr, message)

\* thread.unshift(currentMessage)
Unshift(thr, message) == <<message>> \o thr

\* while (currentMessage && thread.length < maxHistory) { ... }
RECURSIVE WalkThread(_, _, _, _)
WalkThread(messages, currentMessage, thr, maxHistory) ==
    IF currentMessage = Undefined \/ Len(thr) >= maxHistory
    THEN thr
    ELSE IF currentMessage[1].replyTo # NULL
         THEN WalkThread(messages,
                         ArrayFind(messages, currentMessage[1].replyTo),
                         Unshift(thr, currentMessage[1]), maxHistory)
         ELSE Unshift(thr, currentMessage[1])

\* getMessageHistory(client, message, maxHistory) is called: without
\* inReplyTo it returns [], else it awaits client.getMessages
GetMessageHistoryCall(inReplyTo, maxHistory) ==
    /\ thread.pc = "idle"
    /\ thread' = [pc         |-> IF inReplyTo = NULL THEN "returned" ELSE "fetching",
                  inReplyTo  |-> inReplyTo,
                  maxHistory |-> maxHistory,
                  fetched    |-> FALSE,
                  messages   |-> <<>>,
                  result     |-> <<>>]
    /\ UNCHANGED <<varsEnv, varsPipe, varsLoop, varsMgr, varsObs, varsFact, ext,
                   llm, act, aiPost, run, buf>>

\* client.getMessages resolves with messages: the thread is walked back
\* from the message replied to
GetMessagesReturn(messages) ==
    /\ thread.pc = "fetching"
    /\ thread' = [thread EXCEPT
                     !.pc = "returned", !.fetched = TRUE, !.messages = messages,
                     !.result = WalkThread(messages,
                                           ArrayFind(messages, thread.inReplyTo),
                                           <<>>, thread.maxHistory)]
    /\ UNCHANGED <<varsEnv, varsPipe, varsLoop, varsMgr, varsObs, varsFact, ext,
                   llm, act, aiPost, run, buf>>

\* client.getMessages rejects: catch (error), return []
GetMessagesFail ==
    /\ thread.pc = "fetching"
    /\ thread' = [thread EXCEPT !.pc = "returned", !.result = <<>>]
    /\ UNCHANGED <<varsEnv, varsPipe, varsLoop, varsMgr, varsObs, varsFact, ext,
                   llm, act, aiPost, run, buf>>

NextThread ==
    \/ thread.pc = "idle" /\ \E inReplyTo \in {NULL} \cup ThreadMessageIds :
           \E maxHistory \in MaxHistories :
               GetMessageHistoryCall(inReplyTo, maxHistory)
    \/ thread.pc = "fetching" /\ \E messages \in FetchedMessages :
           GetMessagesReturn(messages)
    \/ GetMessagesFail

SpecThread == Init /\ [][NextThread]_vars

(***************************************************************************)
(* AlfaFrensAIPost (extensions/ai-post) and the AlfaFrensTaskManager it    *)
(* creates (extensions/tasks.ts). Time is counted in seconds.              *)
(***************************************************************************)
MaxAIPostCalls == 3          \* calls of start() and stop()
MaxClock == 3                \* seconds that pass
DefaultIntervalSeconds == 3600

\* the argument of start(): undefined, or a number of seconds
IntervalArguments == {Undefined, Some(1), Some(2)}

\* intervalSeconds || this.options.intervalSeconds || getNumericSetting(...,
\* 3600), with no option and no setting given
PostIntervalOf(intervalSeconds) ==
    IF intervalSeconds = Undefined \/ intervalSeconds[1] = 0
    THEN DefaultIntervalSeconds
    ELSE intervalSeconds[1]

\* handler || (() => Promise.resolve()): the handler of a task, which is
\* "resolve" when none is given
HandlerOf(handler) == IF handler = Undefined THEN "resolve" ELSE handler[1]

\* await task.handler(): the default handler does nothing; the number of
\* posts created through the client is what a handler adds to
RunHandler(task, created) ==
    IF task.handler = "createPost" THEN created + 1 ELSE created

\* the tasks whose timer fires at time t: those with an armed interval whose
\* period has elapsed once more
FiringTasks(p, t) ==
    {id \in p.intervals :
        /\ t > p.tasks[id].created
        /\ (t - p.tasks[id].created) % p.tasks[id].interval = 0}

RECURSIVE RunHandlers(_, _, _)
RunHandlers(tasks, ids, created) ==
    IF ids = {} THEN created
    ELSE LET id == CHOOSE x \in ids : \A y \in ids : x <= y
         IN  RunHandlers(tasks, ids \ {id}, RunHandler(tasks[id], created))

\* createAIInteractionTask(type, interval, handler): the task is added, and
\* its interval is armed only if the task manager is running
createAIInteractionTask(p, type, interval, handler) ==
    LET id   == Len(p.tasks) + 1
        task == [type |-> type, interval |-> interval, created |-> p.clock,
                 lastRun |-> p.clock, handler |-> HandlerOf(handler)]
    IN  [p EXCEPT !.tasks = Append(p.tasks, task),
                  !.intervals = IF p.taskManager.isRunning
                                THEN p.intervals \cup {id} ELSE p.intervals]

\* AlfaFrensAIPost.start(intervalSeconds)
AIPostStart(intervalSeconds) ==
    /\ aiPost.calls < MaxAIPostCalls
    /\ aiPost' =
          IF aiPost.isRunning
          THEN [aiPost EXCEPT !.calls = aiPost.calls + 1]
          ELSE createAIInteractionTask(
                   [aiPost EXCEPT !.calls = aiPost.calls + 1, !.isRunning = TRUE],
                   "POST", PostIntervalOf(intervalSeconds), Undefined)
    /\ UNCHANGED <<varsEnv, varsPipe, varsLoop, varsMgr, varsObs, varsFact, ext,
                   llm, act, thread, run, buf>>

\* AlfaFrensAIPost.stop(): processTasks awaits the handler of every task
AIPostStop ==
    /\ aiPost.calls < MaxAIPostCalls
    /\ aiPost' =
          IF ~aiPost.isRunning
          THEN [aiPost EXCEPT !.calls = aiPost.calls + 1]
          ELSE [aiPost EXCEPT
                   !.calls = aiPost.calls + 1,
                   !.isRunning = FALSE,
                   !.posts = RunHandlers(aiPost.tasks, DOMAIN aiPost.tasks,
                                         aiPost.posts),
                   !.tasks = [id \in DOMAIN aiPost.tasks |->
                                 [aiPost.tasks[id] EXCEPT !.lastRun = aiPost.clock]]]
    /\ UNCHANGED <<varsEnv, varsPipe, varsLoop, varsMgr, varsObs, varsFact, ext,
                   llm, act, thread, run, buf>>

\* a second passes: the callbacks of the intervals that fire run the
\* handlers of their tasks
ClockTick ==
    /\ aiPost.clock < MaxClock
    /\ LET t      == aiPost.clock + 1
           firing == FiringTasks(aiPost, t)
       IN  aiPost' =
              [aiPost EXCEPT
                  !.clock = t,
                  !.posts = RunHandlers(aiPost.tasks, firing, aiPost.posts),
                  !.tasks = [id \in DOMAIN aiPost.tasks |->
                                IF id \in firing
                                THEN [aiPost.tasks[id] EXCEPT !.lastRun = t]
                                ELSE aiPost.tasks[id]]]
    /\ UNCHANGED <<varsEnv, varsPipe, varsLoop, varsMgr, varsObs, varsFact, ext,
                   llm, act, thread, run, buf>>

NextAIPost ==
    \/ \E intervalSeconds \in IntervalArguments : AIPostStart(intervalSeconds)
    \/ AIPostStop
    \/ ClockTick

SpecAIPost == Init /\ [][NextAIPost]_vars

\* time passes
SpecAIPostFair == SpecAIPost /\ WF_vars(ClockTick)

(***************************************************************************)
(* One cycle's batches: processMessages after the fetch, and               *)
(* processMessageBatch.  The fetched array is <<1, ..., n>>: a message is  *)
(* named by its position in fetch order.                                   *)
(***************************************************************************)
BatchSize == 10

MaxFetched == 12

\* how many messages of one cycle end otherwise than with a reply
MaxIrregular == 2

FetchSizes == {1, BatchSize, MaxFetched}

\* "self" is skipped by one of the three filters; "malformed" makes the code
\* between the filters and the memory write throw (senderUsername without a
\* replace method)
MessageKinds == {"user", "self", "malformed"}

FetchedKinds ==
    UNION {UNION {[1..n -> {"user"}] \cup
                  {[k \in 1..n |-> IF k \in DOMAIN f THEN f[k] ELSE "user"] :
                       f \in [S -> {"self", "malformed"}]} :
                  S \in {T \in SUBSET (1..n) : Cardinality(T) <= MaxIrregular}} :
           n \in FetchSizes}

\* Array.prototype.slice(start, end), for 0 <= start <= end
ArraySlice(s, start, end) ==
    SubSeq(s, start + 1, IF end < Len(s) THEN end ELSE Len(s))

RECURSIVE MessageBatchesFrom(_, _)
MessageBatchesFrom(messages, i) ==
    IF i < Len(messages)
    THEN <<ArraySlice(messages, i, i + BatchSize)>>
             \o MessageBatchesFrom(messages, i + BatchSize)
    ELSE <<>>

MessageBatches_LastFirst(messages) ==
    LET batches == MessageBatchesFrom(messages, 0)
    IN  [b \in 1..Len(batches) |-> batches[Len(batches) + 1 - b]]

MessageBatches(messages) == MessageBatchesFrom(messages, 0)

\* the message the loops stand at
CurrentMessage(r) == r.batches[r.b][r.i]

\* the handling of the current message is over, the inner loop goes on
MessageOver(r) ==
    [r EXCEPT !.ended = Append(@, CurrentMessage(r)), !.i = @ + 1]

BatchError_Abort(r) ==
    [r EXCEPT !.ended  = Append(@, CurrentMessage(r)),
              !.errors = Append(@, CurrentMessage(r)),
              !.b      = Len(r.batches) + 1,
              !.i      = 1]

\* an error escaped processMessageBatch: logged, the outer loop goes on
BatchError(r) ==
    [r EXCEPT !.ended  = Append(@, CurrentMessage(r)),
              !.errors = Append(@, CurrentMessage(r)),
              !.b      = @ + 1,
              !.i      = 1]

\* the loops run until the next await or the end of the last batch
RECURSIVE RunToAwait(_)
RunToAwait(r) ==
    IF r.b > Len(r.batches) THEN [r EXCEPT !.pc = "done"]
    ELSE IF r.i > Len(r.batches[r.b])
    THEN RunToAwait([r EXCEPT !.b = @ + 1, !.i = 1])
    ELSE LET m     == CurrentMessage(r)
             begun == [r EXCEPT !.started = Append(@, m)]
         IN  CASE r.kinds[m] = "self"      -> RunToAwait(MessageOver(begun))
               [] r.kinds[m] = "malformed" -> RunToAwait(BatchError(begun))
               [] OTHER                    -> [begun EXCEPT !.pc = "persist"]

\* the fetch returned kinds (one per message): the batches are cut and the
\* first batch is entered
ProcessBatches(kinds) ==
    /\ run.pc = "idle"
    /\ LET messages == [k \in 1..Len(kinds) |-> k]
       IN  run' = RunToAwait([run EXCEPT
                      !.kinds     = kinds,
                      !.batches   = MessageBatches(messages),
                      !.b         = 1,
                      !.i         = 1,
                      !.irregular = Cardinality({k \in 1..Len(kinds) :
                                                     kinds[k] # "user"})])
    /\ UNCHANGED <<varsEnv, varsPipe, varsLoop, varsMgr, varsObs, varsFact, ext,
                   llm, act, thread, aiPost, buf>>

\* messageManager.createMemory settled; a rejection is logged and no more
BatchCreateMemoryReturn(ok) ==
    /\ run.pc = "persist"
    /\ run' = [run EXCEPT !.pc = "evaluate"]
    /\ UNCHANGED <<varsEnv, varsPipe, varsLoop, varsMgr, varsObs, varsFact, ext,
                   llm, act, thread, aiPost, buf>>

BatchEvaluateReturn(outcome) ==
    /\ run.pc = "evaluate"
    /\ IF outcome = "respond"
       THEN run' = [run EXCEPT !.pc = "generate"]
       ELSE /\ run.irregular < MaxIrregular
            /\ run' = RunToAwait(MessageOver([run EXCEPT !.irregular = @ + 1]))
    /\ UNCHANGED <<varsEnv, varsPipe, varsLoop, varsMgr, varsObs, varsFact, ext,
                   llm, act, thread, aiPost, buf>>

BatchGenerateReturn(ok) ==
    /\ run.pc = "generate"
    /\ IF ok
       THEN run' = [run EXCEPT !.pc = "send"]
       ELSE /\ run.irregular < MaxIrregular
            /\ run' = RunToAwait(MessageOver([run EXCEPT !.irregular = @ + 1]))
    /\ UNCHANGED <<varsEnv, varsPipe, varsLoop, varsMgr, varsObs, varsFact, ext,
                   llm, act, thread, aiPost, buf>>

BatchSendReturn(ok) ==
    /\ run.pc = "send"
    /\ IF ok
       THEN run' = RunToAwait(MessageOver(
                       [run EXCEPT !.replies = Append(@, CurrentMessage(run))]))
       ELSE /\ run.irregular < MaxIrregular
            /\ run' = RunToAwait(MessageOver([run EXCEPT !.irregular = @ + 1]))
    /\ UNCHANGED <<varsEnv, varsPipe, varsLoop, varsMgr, varsObs, varsFact, ext,
                   llm, act, thread, aiPost, buf>>

NextBatch ==
    \/ run.pc = "idle" /\ \E kinds \in FetchedKinds : ProcessBatches(kinds)
    \/ \E ok \in BOOLEAN : BatchCreateMemoryReturn(ok)
    \/ \E outcome \in {"respond", "decline", "throw"} : BatchEvaluateReturn(outcome)
    \/ \E ok \in BOOLEAN : BatchGenerateReturn(ok)
    \/ \E ok \in BOOLEAN : BatchSendReturn(ok)

SpecBatch == Init /\ [][NextBatch]_vars

(***************************************************************************)
(* The rolling history buffer over the cycles of one pipeline.  A fetched  *)
(* message is named <<cycle, position in the fetched array>>.              *)
(***************************************************************************)
MaxBufCycles == 4

\* how many messages one fetch returns
FetchCounts == {0, 1, 7, 25, 60}

\* a cycle's fetch returned n messages
BufferFetchReturn(n) ==
    /\ buf.cycles < MaxBufCycles
    /\ LET messages == [k \in 1..n |-> <<buf.cycles + 1, k>>]
       IN  IF Len(messages) = 0
           THEN buf' = [buf EXCEPT !.cycles = @ + 1]
           ELSE buf' = [cycles  |-> buf.cycles + 1,
                        history |-> UpdateHistory(buf.history, messages),
                        fetched |-> buf.fetched \o messages]
    /\ UNCHANGED <<varsEnv, varsPipe, varsLoop, varsMgr, varsObs, varsFact, ext,
                   llm, act, thread, aiPost, run>>

\* a cycle's fetch threw
BufferFetchFail ==
    /\ buf.cycles < MaxBufCycles
    /\ buf' = [buf EXCEPT !.cycles = @ + 1]
    /\ UNCHANGED <<varsEnv, varsPipe, varsLoop, varsMgr, varsObs, varsFact, ext,
                   llm, act, thread, aiPost, run>>

NextBuffer ==
    \/ \E n \in FetchCounts : BufferFetchReturn(n)
    \/ BufferFetchFail

SpecBuffer == Init /\ [][NextBuffer]_vars

C2_CheckpointNeverDecreases ==
    [][lastProcessedTime' >= lastProcessedTime]_vars

\* C3: no channel message is returned to the fetches of two poll cycles, so
\* none is forwarded to the evaluator or answered twice.
C3_NoMessageFetchedTwice ==
    /\ \A id \in DOMAIN fetchLog : fetchLog[id] <= 1
    /\ \A id \in DOMAIN evalLog : evalLog[id] <= 1
    /\ \A id \in DOMAIN sendLog : sendLog[id] <= 1

\* a message of our own, in the words of the claim: same sender id, or same
\* handle once a leading '@' is stripped from both
IsSelfMessage(m) ==
    \/ m.senderId = config.userId
    \/ StripLeading(m.senderUsername, "@") = StripLeading(config.username, "@")

\* C4: a message of our own is never persisted to memory, never forwarded to
\* the evaluator and never answered.
C4_SelfNeverForwarded ==
    \A id \in DOMAIN persistLog \cup DOMAIN evalLog \cup DOMAIN sendLog :
        ~IsSelfMessage(channel[id])

\* C5: while the orchestrator is stopped no poll timer and no post timer is
\* armed, in every interleaving of start(), stop() and the cycles.
C5_StoppedHasNoTimers ==
    ~isRunning => timers = {}

\* C6: once the manager's stop() has written the cache and the pipeline is
\* at rest, the cached value is the pipeline's checkpoint; and the first
\* fetch after the next start carries since = the cached value.
C6_CheckpointSurvivesRestart ==
    /\ (cache # NULL /\ mgrStop.pc = "idle" /\ ~mgrRunning /\ ~isRunning
            /\ mgrInit = "idle" /\ cycles = <<>>)
          => cache = lastProcessedTime
    /\ \A c \in DOMAIN cycles :
          (cycles[c].awaited = "mgr" /\ cache # NULL /\ restarts > 0)
              => cycles[c].since = cache

\* the poll timer the field refers to is armed
PollTimerArmed ==
    /\ pollIntervalId # NULL
    /\ [id |-> pollIntervalId, kind |-> "poll", interval |-> PollInterval]
           \in timers

\* a step in which the fetch of cycle c fails
FetchFailed(c) == cycles[c].pc = "fetching" /\ c \notin DOMAIN cycles'

\* a step in which the evaluation, the generation or the validation of cycle
\* c fails: the message is counted as evaluated and no reply is sent
GenerationFailed(c) ==
    /\ cycles[c].pc = "handling"
    /\ evalLog' # evalLog /\ sendLog' = sendLog
    /\ (c \in DOMAIN cycles' => cycles'[c] # cycles[c])

\* a step in which the remote refuses the reply of cycle c
SendFailed(c) ==
    /\ cycles[c].pc = "sending"
    /\ channel' = channel
    /\ (c \in DOMAIN cycles' => cycles'[c].pc # "sending")

\* processMessages is going on with the next message, or has resolved and
\* the start() that awaited it has resumed
GoesOnOrResolves(c) ==
    IF c \in DOMAIN cycles'
    THEN cycles'[c].pc = "handling" /\ cycles'[c].idx > cycles[c].idx
    ELSE cycles[c].awaited = "host" /\ config.enablePost =>
             postIntervalId' = nextTimer /\ nextTimer' = nextTimer + 1

\* C17: while the orchestrator is running its poll timer is armed; a failure
\* of the fetch, of the evaluation, generation or validation, or of the send
\* leaves the orchestrator running and the timer armed, and processMessages
\* goes on or resolves; a tick of the timer of a running orchestrator starts
\* a new cycle, whatever happened before.
C17_FailuresLeaveLoopRunning ==
    /\ [](isRunning => PollTimerArmed)
    /\ [][\A c \in DOMAIN cycles :
            FetchFailed(c) \/ GenerationFailed(c) \/ SendFailed(c) =>
                /\ isRunning' = isRunning
                /\ pollIntervalId' = pollIntervalId
                /\ timers \subseteq timers'
                /\ GoesOnOrResolves(c)]_vars
    /\ [][isRunning /\ nextCycle' # nextCycle =>
            /\ nextCycle \in DOMAIN cycles'
            /\ cycles'[nextCycle].pc = "fetching"
            /\ cycles'[nextCycle].since = lastProcessedTime
            /\ isRunning' /\ PollTimerArmed']_vars

\* a generation has failed, the orchestrator is running with its timer armed
\* and a cycle started by a tick is fetching, no other cycle being in flight
C17_Witness ==
    /\ isRunning
    /\ PollTimerArmed
    /\ \E id \in DOMAIN evalLog : Count(evalLog, id) > Count(sendLog, id)
    /\ \E c \in DOMAIN cycles :
           /\ DOMAIN cycles = {c}
           /\ cycles[c].pc = "fetching"
           /\ cycles[c].awaited = "none"


\* a step in which the host calls initialize() on a running manager: a call
\* of the host that finds the manager running and is not a stop()
InitializeOnRunning ==
    /\ mgrRunning
    /\ hostCalls' = hostCalls + 1
    /\ mgrStop' = mgrStop

\* C18: initialize() on a running manager returns at once: no step of an
\* initialization is begun (no cache read, no registration, no initial
\* post), aiInteraction.start is not called, and isRunning stays true.
C18_InitializeOnRunningIsNoOp ==
    [][InitializeOnRunning =>
          /\ mgrRunning'
          /\ mgrInit' = mgrInit
          /\ mgrReturned' = Returned("initialize", "early")
          /\ UNCHANGED <<varsEnv, varsPipe, timers, nextTimer, cycles,
                         nextCycle, posts, nextPost, mgrLastProcessedTime,
                         cache, varsObs>>]_vars

\* initialize() has returned at once on a running manager
C18_Witness ==
    /\ mgrReturned = Returned("initialize", "early")
    /\ mgrRunning
    /\ hostCalls >= 2

\* a step in which an initialize() call settles
InitializeSettles == mgrInit # "idle" /\ mgrInit' = "idle"

\* C19: when initialize() rejects the manager is not running, and when it
\* resolves after all its steps the manager is running.
C19_InitializeAllOrNothing ==
    [][InitializeSettles =>
          /\ mgrReturned'.call = "initialize"
          /\ mgrReturned'.outcome = "rejected" => ~mgrRunning'
          /\ mgrReturned'.outcome = "resolved" => mgrRunning']_vars

\* a step in which stop() begins on a running manager
StopOnRunning == mgrRunning /\ mgrStop.pc = "idle" /\ mgrStop'.pc = "cacheSet"

\* a step in which a stop() call that found the manager running settles
StopSettles == mgrStop.pc = "cacheSet" /\ mgrStop'.pc = "idle"

\* a step in which the host calls stop() on a manager that is not running
StopOnStopped ==
    /\ ~mgrRunning
    /\ hostCalls' = hostCalls + 1
    /\ mgrInit' = mgrInit

\* C20: stop() on a running manager sets isRunning to false and issues the
\* cache write of the last processed time; when it settles the orchestrator
\* has been stopped, the cache holds the value unless the call rejected;
\* stop() on a manager that is not running writes nothing and stops nothing.
C20_StopWritesCacheAndStops ==
    [][/\ StopOnRunning =>
             ~mgrRunning' /\ mgrStop'.value = mgrLastProcessedTime
       /\ StopSettles =>
             /\ ~isRunning'
             /\ mgrReturned'.call = "stop"
             /\ mgrReturned'.outcome = "resolved" => cache' = mgrStop.value
       /\ StopOnStopped =>
             /\ mgrReturned' = Returned("stop", "early")
             /\ UNCHANGED <<cache, mgrStop, isRunning, timers,
                            pollIntervalId, postIntervalId>>]_vars

(***************************************************************************)
(* Claims about the validator and the generation flow                      *)
(***************************************************************************)
\* C7: storeFact writes a record to the memory store exactly when the
\* confidence is not below 0.7 (0.7 or more, or NaN) and createMemory
\* succeeds; below 0.7 (0.69999 included) nothing is written; whatever the
\* confidence and whatever createMemory does, storeFact raises no error.
C7_StoreFactThreshold ==
    storeCall # <<>> =>
        /\ ~storeCall.threw
        /\ storeCall.persisted <=>
               /\ storeCall.ok
               /\ \/ storeCall.confidence.t = "NaN"
                  \/ /\ storeCall.confidence.t = "number"
                     /\ storeCall.confidence.v * 10 >= 7 * Scale

\* a fact at exactly 0.7 has been persisted, next to nothing else
C7_Witness ==
    /\ storeCall # <<>>
    /\ storeCall.confidence = Tenths(7)
    /\ storeCall.persisted
    /\ Len(factStore) = 1
    /\ factStore[1].confidence = Tenths(7)

\* C7 as stated: a record is persisted if and only if the confidence is
\* 0.7 or more.
C7_PersistedIffAtLeastThreshold ==
    storeCall # <<>> =>
        /\ ~storeCall.threw
        /\ storeCall.persisted <=>
               /\ storeCall.confidence.t = "number"
               /\ storeCall.confidence.v * 10 >= 7 * Scale

\* C8: calculateFactConfidence returns a number between 0 and 1 for every
\* source and every list of contradictions; 0.7 for a statement of the agent
\* without contradictions, 0.5 for one of a third party.
C8_ConfidenceInUnitInterval ==
    confCall # <<>> =>
        /\ confCall.result.t = "number"
        /\ confCall.result.v >= 0
        /\ confCall.result.v <= Scale
        /\ confCall.contradictions = <<>> =>
               confCall.result.v * 10 =
                   IF confCall.senderId = AgentId THEN 7 * Scale ELSE 5 * Scale

\* a validation result of generateResponse that is flagged for correction
Flagged(r) ==
    \/ r.contradictions # <<>>
    \/ /\ r.confidence.t = "number"
       /\ r.confidence.v * 10 < 7 * Scale

\* every extracted fact has been validated
ValidationDone ==
    /\ gen.pc \in {"correcting", "storing", "returned"}
    /\ gen.facts # <<>>
    /\ gen.validations = Len(gen.facts)

GenInFlight == gen.pc \in {"drafting", "extracting", "validating",
                           "correcting", "storing"}

\* at most two generations, one extraction, one validation of each fact
GenWithinOnePass ==
    /\ gen.generations <= 2
    /\ gen.extractions <= 1
    /\ gen.validations <= Len(gen.facts)
    /\ gen.returned = "corrected" =>
           /\ gen.generations = 2
           /\ gen.extractions = 1
           /\ gen.validations = Len(gen.facts)

\* C10: a generateResponse call makes at most two generations and one round
\* of extraction and validation, returns the corrected text unvalidated, and
\* settles when every call it awaits settles: the n-th call returns a text,
\* or it rejects with the error of the draft generation.
C10_OnePassAndSettles ==
    /\ []GenWithinOnePass
    /\ \A n \in 1..MaxGenCalls :
           (GenInFlight /\ genCalls = n)
               ~> (genCalls = n /\ gen.pc \in {"returned", "thrown"})

\* the corrected text has been returned after one round
C10_Witness ==
    /\ gen.pc = "returned"
    /\ gen.returned = "corrected"
    /\ gen.generations = 2
    /\ gen.extractions = 1
    /\ gen.validations = 2

\* C10 as stated: the n-th call reaches a return whenever every call it
\* awaits settles.
C10_OnePassAndReturns ==
    /\ []GenWithinOnePass
    /\ \A n \in 1..MaxGenCalls :
           (GenInFlight /\ genCalls = n)
               ~> (genCalls = n /\ gen.pc = "returned")

\* C11: generateResponse writes to the fact store only when no correction
\* was required, and then only facts with confidence >= 0.7 and no
\* contradictions; the corrected text is returned only after a correction
\* that succeeded, the draft when no correction was required and also when
\* the corrected generation failed.
C11_StoreOnlyWithoutCorrection ==
    /\ [](/\ gen.stored # {} => ~gen.requiresCorrection /\ gen.generations = 1
          /\ \A k \in gen.stored :
                 /\ gen.results[k].contradictions = <<>>
                 /\ gen.results[k].confidence.t = "number"
                 /\ gen.results[k].confidence.v * 10 >= 7 * Scale
          /\ gen.returned = "corrected" =>
                 gen.requiresCorrection /\ gen.generations = 2
          /\ gen.pc = "returned" /\ ~gen.requiresCorrection =>
                 gen.returned = "raw" /\ gen.generations = 1
          /\ gen.pc = "returned" /\ gen.requiresCorrection =>
                 gen.generations = 2 /\ gen.stored = {})
    /\ [][factStore' # factStore =>
             /\ gen.pc = "storing" /\ ~gen.requiresCorrection
             /\ Len(factStore') = Len(factStore) + 1
             /\ SubSeq(factStore', 1, Len(factStore)) = factStore
             /\ factStore'[Len(factStore')].text = gen.results[gen.idx].fact
             /\ factStore'[Len(factStore')].contradictions = <<>>
             /\ factStore'[Len(factStore')].confidence.t = "number"
             /\ factStore'[Len(factStore')].confidence.v * 10 >= 7 * Scale]_vars

\* the draft has been returned for a flagged response, the corrected
\* generation having failed; a fact that could be stored was not
C11_Witness ==
    /\ gen.pc = "returned"
    /\ gen.returned = "raw"
    /\ gen.requiresCorrection
    /\ gen.generations = 2
    /\ gen.stored = {}
    /\ \E k \in 1..Len(gen.results) : Storable(gen.results[k])

\* C11 as stated: the returned text is the draft exactly when no correction
\* was required.
C11_RawIffNoCorrection ==
    gen.pc = "returned" =>
        /\ gen.stored # {} => ~gen.requiresCorrection
        /\ gen.returned = "raw" <=> ~gen.requiresCorrection

\* C12: once the draft is there generateResponse does not throw, whatever
\* fails afterwards.  It returns the draft when the corrected generation or
\* a store fails; a failure during extraction or validation is absorbed
\* inside the validator and the call goes on, so that it may still return
\* the corrected text.
C12_ErrorsAbsorbed ==
    /\ gen.pc = "thrown" => gen.failed = {} /\ gen.extractions = 0
    /\ gen.pc = "returned" /\ gen.failed \cap {"correct", "store"} # {} =>
           gen.returned = "raw"
    /\ gen.returned = "corrected" => gen.failed \subseteq {"extract", "validate"}

\* the corrected text has been returned by a call whose extraction failed
C12_Witness ==
    /\ gen.pc = "returned"
    /\ gen.returned = "corrected"
    /\ "extract" \in gen.failed

\* C12 as stated: after any failure the call returns the draft.
C12_AnyErrorReturnsDraft ==
    /\ gen.pc = "thrown" => gen.failed = {}
    /\ gen.pc = "returned" /\ gen.failed # {} => gen.returned = "raw"

(***************************************************************************)
(* Claims about extractFacts and its fallback                              *)
(***************************************************************************)
\* the answer of the generation holds a JSON array
ArrayParsed ==
    /\ RegexMatchArray(ext.result) # <<>>
    /\ JSONParse(RegexMatchArray(ext.result)).ok
    /\ JSONParse(RegexMatchArray(ext.result)).value.type = "array"

ParsedItems == JSONParse(RegexMatchArray(ext.result)).value.items

\* a string with a character that is not white space
HasVisibleCharacter(v) ==
    v.type = "string" /\ \E k \in 1..Len(v.text) : v.text[k] # " "

RECURSIVE FirstWord(_)
FirstWord(s) ==
    IF s = <<>> \/ Head(s) = " " THEN <<>>
    ELSE <<Head(s)>> \o FirstWord(Tail(s))

\* a sentence that is a question: its first word is an interrogative, or it
\* has a question mark
StartsWithInterrogativeWord(sentence) ==
    ToLowerCase(FirstWord(sentence)) \in Interrogatives

\* C14: the fallback keeps a sentence if and only if it is not a question
\* (no interrogative first word, no '?'), has no hedge marker and has a fact
\* signal.
C14_KeptIffFactualStatement ==
    ext.pc = "fallback" =>
        ext.facts = SelectSeq(Sentences(ext.content),
                        LAMBDA sentence :
                            /\ ~StartsWithInterrogativeWord(sentence)
                            /\ ~Includes(sentence, <<"?">>)
                            /\ ~hasOpinionWords(sentence)
                            /\ hasFactSignals(sentence))

(***************************************************************************)
(* Claims about generateLLMResponse                                        *)
(***************************************************************************)
\* the call was settled by its timer
TimedOut(call) == call.pc # "racing" /\ call.error = TimedOutMessage

\* C15: a call the timer settles fails with an error that takes the timeout
\* branch of the classification, and generatePostContent returns the
\* fallback text instead of throwing.
C15_TimeoutClassifiedAndFallback ==
    \A c \in DOMAIN llm :
        /\ llm[c].site = "post" => llm[c].pc # "thrown"
        /\ TimedOut(llm[c]) =>
               /\ llm[c].branch = "timeout"
               /\ llm[c].site = "post" =>
                      llm[c].pc = "returned" /\ llm[c].result = FallbackPost

\* C16: a call is settled by the first event of its race, and only by it:
\* by the result or the error of the generation when the timer has not
\* fired, by the time-out when the generation has not answered; an event
\* that comes later changes nothing of what the caller got; and every call
\* is settled, whether the generation answers or not.
C16_FirstEventSettles ==
    /\ [](\A c \in DOMAIN llm :
            /\ llm[c].pc = "racing" =>
                   llm[c].timer = "armed" /\ llm[c].request = "pending"
            /\ llm[c].pc # "racing" /\ llm[c].error = <<>> =>
                   llm[c].request = "resolved" /\ llm[c].result = llm[c].answer
            /\ llm[c].pc # "racing" /\ llm[c].error # <<>> =>
                   \/ llm[c].request = "rejected" /\ llm[c].error = llm[c].answer
                   \/ llm[c].timer = "fired" /\ llm[c].error = TimedOutMessage)
    /\ [][\A c \in DOMAIN llm :
            /\ llm[c].pc # "racing" =>
                   /\ llm'[c].pc = llm[c].pc
                   /\ llm'[c].result = llm[c].result
                   /\ llm'[c].error = llm[c].error
            /\ llm[c].pc = "racing" /\ llm'[c].pc # "racing" =>
                   \/ /\ llm'[c].request = "resolved"
                      /\ llm'[c].timer = "armed"
                      /\ llm'[c].error = <<>>
                   \/ /\ llm'[c].request = "rejected"
                      /\ llm'[c].timer = "armed"
                      /\ llm'[c].error = llm'[c].answer
                   \/ /\ llm'[c].request = "pending"
                      /\ llm'[c].timer = "fired"
                      /\ llm'[c].error = TimedOutMessage]_vars
    /\ \A n \in 1..MaxLLMCalls :
           (Len(llm) >= n) ~> (Len(llm) >= n /\ llm[n].pc # "racing")

\* a call was settled by the timer and the generation answered afterwards
C16_Witness ==
    \E c \in DOMAIN llm :
        /\ TimedOut(llm[c])
        /\ llm[c].request = "resolved"
        /\ llm[c].result # llm[c].answer

(***************************************************************************)
(* Claims about the actions a host can invoke                              *)
(***************************************************************************)
\* a call of a handler of createAlfaFrensActions has settled
RegisteredHandlerSettled ==
    /\ act.op = "handler"
    /\ act.action \in RegisteredActions
    /\ act.pc \in {"returned", "thrown"}

\* C21: the handlers of ALFAFRENS_CREATE_POST and ALFAFRENS_RESPOND never
\* throw, consult no evaluator and return a boolean that is true exactly when
\* the gateway accepted the send. A failed send gives false, and so does a
\* failed generation of a response, after which nothing is sent; a failed
\* generation of post content is replaced by the fallback sentence of
\* generatePostContent, which is posted, and the result is that of the send.
C21_HandlersReportSendOutcome ==
    /\ act.action \in RegisteredActions =>
          /\ act.pc # "thrown"
          /\ act.evaluations = 0
    /\ RegisteredHandlerSettled =>
          /\ act.result.type = "boolean"
          /\ act.result.value = (act.send = "ok")
          /\ act.send = "ok" => act.apiCalls = 1
          /\ (act.action = "ALFAFRENS_RESPOND" /\ act.generation = "failed") =>
                /\ act.result.value = FALSE
                /\ act.apiCalls = 0
          /\ (act.action = "ALFAFRENS_CREATE_POST" /\ act.generation = "failed") =>
                /\ act.sent = Some(FallbackPost)
                /\ act.apiCalls = 1

\* the generation of the post content has failed, the fallback sentence was
\* posted and the handler has returned true
C21_Witness ==
    /\ RegisteredHandlerSettled
    /\ act.action = "ALFAFRENS_CREATE_POST"
    /\ act.generation = "failed"
    /\ act.send = "ok"
    /\ act.result = JsBoolean(TRUE)

\* C21 as stated: the result is true when the send succeeded and false when
\* the generation or the send failed
C21_FalseWhenGenerationOrSendFailed ==
    RegisteredHandlerSettled =>
        /\ act.pc = "returned"
        /\ act.result.type = "boolean"
        /\ act.send = "ok" => act.result.value = TRUE
        /\ (act.generation = "failed" \/ act.send = "failed") =>
              act.result.value = FALSE

\* the value of content.action that names the action
ActionNameOf(action) ==
    IF action = "sendAlfaFrensMessageAction" THEN "alfafrens_send_message"
    ELSE "alfafrens_create_post"

\* C22: validate of sendAlfaFrensMessageAction and createAlfaFrensPostAction
\* returns true only for a message whose content.action names the action; a
\* message with another action name is refused even when it has a text.
C22_ValidateChecksActionName ==
    (act.op = "validate" /\ act.pc = "returned") =>
        (act.result.value = TRUE =>
            act.content.action = ActionNameOf(act.action))

\* the result the tests expect of a handler that finds no client
NotRunningResult ==
    [type  |-> "object",
     text  |-> "AlfaFrens client is not running. Make sure it's enabled in your character config.",
     error |-> TRUE]

\* C23: with no AlfaFrensManager among runtime.clients the handlers of
\* sendAlfaFrensMessageAction and createAlfaFrensPostAction call no API, do
\* not throw and return {text: "AlfaFrens client is not running. ...",
\* error: true}.
C23_MissingClientReturnsErrorResult ==
    (/\ act.op = "handler"
     /\ act.action \in PluginActions
     /\ ~act.hasClient
     /\ act.pc \in {"returned", "thrown"}) =>
        /\ act.apiCalls = 0
        /\ act.pc = "returned"
        /\ act.result = NotRunningResult

(***************************************************************************)
(* Claims about getMessageHistory                                          *)
(***************************************************************************)
\* the ids of the messages client.getMessages resolved with
FetchedIds == {thread.messages[k].id : k \in 1..Len(thread.messages)}

\* C24: getMessageHistory returns [] for a message without inReplyTo. Else
\* its result is the chain of ancestors of the message replied to: it ends
\* with that message, every entry is the fetched message the next entry
\* replies to (so the oldest comes first, in creation order when replies
\* refer to older messages), it has at most maxHistory entries and stops
\* earlier only at a message that replies to nothing or to a message that
\* was not fetched. The call returns for every fetched set, also one with
\* a cycle of replyTo links.
C24_ThreadIsBoundedAncestorChain ==
    thread.pc = "returned" =>
        LET result == thread.result
            n      == Len(result)
        IN  /\ thread.inReplyTo = NULL => result = <<>>
            /\ n <= thread.maxHistory
            /\ \A i \in 1..n : \E k \in 1..Len(thread.messages) :
                   thread.messages[k] = result[i]
            /\ \A i \in 1..(n - 1) : result[i].id = result[i + 1].replyTo
            /\ (n = 0) = (~thread.fetched \/ thread.inReplyTo \notin FetchedIds)
            /\ n > 0 =>
                  /\ result[n].id = thread.inReplyTo
                  /\ \/ n = thread.maxHistory
                     \/ result[1].replyTo = NULL
                     \/ result[1].replyTo \notin FetchedIds
            /\ (\A i \in 1..n : result[i].replyTo < result[i].id) =>
                  \A i \in 1..(n - 1) : result[i].id < result[i + 1].id

\* the walk went round a cycle of replyTo links until the thread had
\* maxHistory entries
C24_Witness ==
    /\ thread.pc = "returned"
    /\ Len(thread.result) = DefaultMaxHistory
    /\ thread.maxHistory = DefaultMaxHistory
    /\ thread.result[1].id = thread.result[Len(thread.result)].id

(***************************************************************************)
(* Claims about AlfaFrensAIPost                                            *)
(***************************************************************************)
\* the interval of a posting task has elapsed k times since start()
IntervalElapsed(k) ==
    \E id \in DOMAIN aiPost.tasks :
        aiPost.clock >= aiPost.tasks[id].created + k * aiPost.tasks[id].interval

\* C25: once AlfaFrensAIPost.start(intervalSeconds) was called, each time the
\* interval has elapsed with the generator still running a post is
\* eventually created through the client (or the generator is stopped
\* first), and while the generator is stopped no post is created.
C25_PostsWhileRunning ==
    /\ \A k \in 1..MaxClock :
          (aiPost.isRunning /\ aiPost.calls = 1 /\ IntervalElapsed(k))
              ~> (aiPost.posts >= k \/ ~aiPost.isRunning)
    /\ [][~aiPost.isRunning /\ ~aiPost'.isRunning
              => aiPost'.posts = aiPost.posts]_vars

(***************************************************************************)
(* Claims about the poll cycle                                             *)
(***************************************************************************)
\* a step in which cycle c ends because its fetch returned no message
FetchEmpty(c) ==
    /\ cycles[c].pc = "responded"
    /\ cycles[c].resp = <<>>
    /\ c \notin DOMAIN cycles'

\* nothing of the pipeline state is written, nothing is persisted or sent
\* and no fetch is issued
CycleLeavesNoTrace ==
    /\ lastProcessedTime' = lastProcessedTime
    /\ messageHistory' = messageHistory
    /\ sentMessageIds' = sentMessageIds
    /\ channel' = channel
    /\ persistLog' = persistLog
    /\ evalLog' = evalLog
    /\ sendLog' = sendLog
    /\ fetchLog' = fetchLog
    /\ DOMAIN cycles' \subseteq DOMAIN cycles

\* C26: a poll cycle whose fetch fails or returns no message ends at once:
\* it leaves the checkpoint, the history buffer and the registry as they
\* are, persists and sends nothing and issues no second fetch; every cycle
\* started afterwards issues its fetch with since = the checkpoint as it is
\* then, that is, as the failed cycle left it.
C26_FailedFetchLeavesNoTrace ==
    /\ [][\A c \in DOMAIN cycles :
            FetchFailed(c) \/ FetchEmpty(c) => CycleLeavesNoTrace]_vars
    /\ [][\A c \in DOMAIN cycles' \ DOMAIN cycles :
            /\ cycles'[c].pc = "fetching"
            /\ cycles'[c].since = lastProcessedTime
            /\ lastProcessedTime' = lastProcessedTime]_vars

\* the fetch of the first cycle failed or returned nothing, and the cycle
\* the next tick started is fetching with the since value of the first
C26_Witness ==
    /\ isRunning
    /\ DOMAIN cycles = {2}
    /\ cycles[2].pc = "fetching"
    /\ cycles[2].awaited = "none"
    /\ cycles[2].since = Epoch
    /\ lastProcessedTime = Epoch
    /\ lastBatch = <<>>

\* C26 as stated: the checkpoint such a cycle leaves, which the next tick
\* uses, is the since value the cycle itself fetched with
C26_NextTickSameSince ==
    [][\A c \in DOMAIN cycles :
          FetchFailed(c) \/ FetchEmpty(c) =>
              /\ CycleLeavesNoTrace
              /\ lastProcessedTime' = cycles[c].since]_vars

\* C27: when cycles do not overlap, the checkpoint has been advanced past
\* the fetched batch by the time any of its messages is handled, and no
\* message is handled (persisted, evaluated) or answered more than once,
\* whatever failed while it was handled.
C27_AtMostOneHandling ==
    /\ \A c \in DOMAIN cycles :
          cycles[c].pc \in {"handling", "sending", "sent"} =>
              lastProcessedTime = NextCheckpoint(cycles[c].resp)
    /\ \A id \in 1..Len(channel) :
          /\ Count(persistLog, id) <= 1
          /\ Count(evalLog, id) <= 1
          /\ Count(sendLog, id) <= 1

\* a message whose generation failed got no reply, and a later cycle has
\* processed a batch of its own without handling it again
C27_Witness ==
    /\ cycles = <<>>
    /\ lastBatch # <<>>
    /\ \E id \in 1..Len(channel) :
          /\ Count(persistLog, id) = 1
          /\ Count(evalLog, id) = 1
          /\ Count(sendLog, id) = 0
          /\ \A k \in 1..Len(lastBatch) : lastBatch[k] # id

InSeq(s, x) == \E k \in 1..Len(s) : s[k] = x

IsAscending(s) == \A k \in 1..Len(s) - 1 : s[k] < s[k + 1]

\* C28: when the cycle is over every batch has been entered, a message was
\* left unhandled only because an earlier message of its own batch made
\* processMessageBatch throw, and every such error was logged at cycle
\* level; failures inside the handling of a message drop nothing.
C28_LaterBatchesStillProcessed ==
    run.pc = "done" =>
        /\ \A b \in 1..Len(run.batches) : InSeq(run.started, run.batches[b][1])
        /\ \A b \in 1..Len(run.batches) : \A k \in 1..Len(run.batches[b]) :
              ~InSeq(run.started, run.batches[b][k]) =>
                  \E j \in 1..(k - 1) :
                      run.kinds[run.batches[b][j]] = "malformed"
        /\ \A m \in 1..Len(run.kinds) :
              run.kinds[m] = "malformed" /\ InSeq(run.started, m) =>
                  InSeq(run.errors, m)
        /\ \A b \in 1..Len(run.batches) - 1 :
              \A m1 \in 1..Len(run.started), m2 \in 1..Len(run.started) :
                  /\ InSeq(run.batches[b], run.started[m1])
                  /\ InSeq(run.batches[b + 1], run.started[m2])
                  => m1 < m2

\* an error escaped the first batch and dropped the rest of it, a message of
\* the second batch was answered all the same
C28_Witness ==
    /\ run.pc = "done"
    /\ Len(run.batches) = 2
    /\ \E k \in 1..Len(run.batches[1]) - 1 :
          /\ InSeq(run.errors, run.batches[1][k])
          /\ ~InSeq(run.started, run.batches[1][k + 1])
    /\ \E k \in 1..Len(run.batches[2]) : InSeq(run.replies, run.batches[2][k])

\* C29: within one cycle messages are handled in fetch order, one at a
\* time: the handling of a message has ended before the next one begins,
\* and the replies are sent in fetch order.
C29_HandledInFetchOrder ==
    /\ IsAscending(run.started)
    /\ IsAscending(run.replies)
    /\ Len(run.ended) <= Len(run.started)
    /\ Len(run.started) - Len(run.ended) <= 1
    /\ \A k \in 1..Len(run.ended) : run.ended[k] = run.started[k]
    /\ Len(run.started) > Len(run.ended)
           <=> run.pc \in {"persist", "evaluate", "generate", "send"}
    /\ \A k \in 1..Len(run.replies) : InSeq(run.started, run.replies[k])

\* replies in both batches, around a message whose handling failed
C29_Witness ==
    /\ run.pc = "done"
    /\ Len(run.batches) = 2
    /\ \E m1 \in 1..Len(run.kinds), m2 \in 1..Len(run.kinds),
          m3 \in 1..Len(run.kinds) :
          /\ m1 < m2 /\ m2 < m3
          /\ InSeq(run.batches[1], m1) /\ InSeq(run.replies, m1)
          /\ run.kinds[m2] = "user" /\ InSeq(run.ended, m2)
          /\ ~InSeq(run.replies, m2)
          /\ InSeq(run.batches[2], m3) /\ InSeq(run.replies, m3)

BatchIds(messages) == [k \in 1..Len(messages) |-> messages[k].id]

\* cycle c takes its step from the fetched answer to the batches
AppendsBatch(c) ==
    /\ c \in DOMAIN cycles
    /\ cycles[c].pc = "responded"
    /\ Len(cycles[c].resp) > 0
    /\ c \in DOMAIN cycles' => cycles'[c].pc # "responded"

\* C31 (as amended): no update of the history buffer is lost, overlapping
\* cycles or not.  Every cycle appends its batch to the buffer as it is at
\* that moment, and no step removes anything from a buffer that holds fewer
\* than 50 messages.
C31_NoHistoryUpdateLost ==
    /\ [][\A c \in DOMAIN cycles :
            AppendsBatch(c) =>
                messageHistory' =
                    LastN(messageHistory \o BatchIds(cycles[c].resp), 50)]_vars
    /\ [][\E n \in 0..Len(messageHistory') :
            messageHistory' =
                LastN(messageHistory \o LastN(messageHistory', n), 50)]_vars

\* two overlapping cycles have both appended their batch, and both batches
\* are in the buffer
C31_Witness ==
    \E c \in DOMAIN cycles :
        /\ cycles[c].pc \in {"handling", "sending", "sent"}
        /\ cycles[c].since # lastProcessedTime
        /\ lastBatch # <<>>
        /\ Len(messageHistory) = Len(cycles[c].resp) + Len(lastBatch)
        /\ SubSeq(messageHistory, 1, Len(cycles[c].resp)) = BatchIds(cycles[c].resp)
        /\ SubSeq(messageHistory, Len(cycles[c].resp) + 1, Len(messageHistory))
               = lastBatch

\* C31 (as stated): the updates of overlapping cycles are last-write-wins.
\* When a cycle appends its batch after another cycle has written the buffer
\* since it started, the batch the other cycle appended is overwritten.
C31_OverlappingUpdateOverwrites ==
    [][\A c \in DOMAIN cycles :
          /\ AppendsBatch(c)
          /\ cycles[c].since # lastProcessedTime
          /\ lastBatch # <<>>
          => \E k \in 1..Len(lastBatch) :
                 \A j \in 1..Len(messageHistory') :
                     messageHistory'[j] # lastBatch[k]]_vars

\* ids of the channel messages the pipeline sent whose send has completed
CompletedSends ==
    {id \in 1..Len(channel) :
        /\ channel[id].origin \in {"reply", "post"}
        /\ \A c \in DOMAIN cycles :
              ~(cycles[c].pc = "sent" /\ cycles[c].replyId = id)
        /\ \A p \in DOMAIN posts :
              ~(posts[p].pc = "created" /\ posts[p].postId = id)}

\* C32: the registry only grows; it holds exactly the ids of the replies and
\* posts whose send has completed, so a completed send has registered its
\* id and a failed send has added nothing.
C32_RegistryOnlyGrows ==
    /\ [](sentMessageIds = CompletedSends)
    /\ [][sentMessageIds \subseteq sentMessageIds']_vars
    /\ [][\A c \in DOMAIN cycles :
            cycles[c].pc = "sending"
            /\ (c \in DOMAIN cycles' => cycles'[c].pc \notin {"sending", "sent"})
            => sentMessageIds' = sentMessageIds]_vars
    /\ [][\A p \in DOMAIN posts :
            posts[p].pc = "creating" /\ p \notin DOMAIN posts'
            => sentMessageIds' = sentMessageIds]_vars

\* a reply and a post are registered, and the orchestrator has been stopped
\* since
C32_Witness ==
    /\ ~isRunning
    /\ \E r \in sentMessageIds, p \in sentMessageIds :
          channel[r].origin = "reply" /\ channel[p].origin = "post"

\* C33: stop() starts nothing.  While the orchestrator is stopped, and stays
\* stopped, no poll fetch is issued and no post creation begins: the sends
\* that still occur belong to calls that were in flight when stop() was
\* called.
C33_StoppedStartsNothing ==
    [][~isRunning /\ ~isRunning' =>
          /\ DOMAIN cycles' \subseteq DOMAIN cycles
          /\ DOMAIN posts' \subseteq DOMAIN posts]_vars

PostTimers(T) == {t \in T : t.kind = "post"}

\* floor of a number of half seconds, in seconds
FloorSeconds(half) == half \div 2

\* what C34 says of the post timer apart from the bounds of its interval: it
\* is armed only when posting is enabled, by a start() call that resumes
\* after its initial processMessages, and it keeps its interval as long as
\* it is armed
PostTimerDrawnOnce ==
    /\ [](\A t \in PostTimers(timers) : config.enablePost)
    /\ [][\A t \in PostTimers(timers') \ timers :
            \E c \in DOMAIN cycles \ DOMAIN cycles' :
                cycles[c].awaited = "host"]_vars
    /\ [][\A t \in timers' : \A u \in timers : t.id = u.id => t = u]_vars

C39_AtMostOneTimerOfEachKind ==
    /\ [](/\ Cardinality(timers \ PostTimers(timers)) <= 1
          /\ Cardinality(PostTimers(timers)) <= 1
          /\ \A t \in timers :
                IF t.kind = "post" THEN postIntervalId = t.id
                ELSE pollIntervalId = t.id)
    /\ [][isRunning /\ isRunning' /\ hostCalls' # hostCalls =>
              timers' = timers]_vars

\* C35: every record of the fact store has a confidence of at least 0.7 and
\* an empty contradictions list, whichever writer stored it.
C35_StoredFactsTrusted ==
    \A i \in 1..Len(factStore) :
        /\ JsGreaterEq(factStore[i].confidence, Tenths(7))
        /\ factStore[i].contradictions = <<>>

\* the texts of the stored claims validateFact judged to conflict with the
\* fact, in candidate order
ConflictingClaims(fact, store, analyses) ==
    LET contradictions == detectContradictions(fact, store, analyses)
    IN  [k \in 1..Len(contradictions) |-> contradictions[k].existingFact]

\* C36: the contradictions list of a validation holds, in candidate order,
\* the texts of the prior stored claims judged to conflict with the fact.
C36_ContradictionsArePriorClaims ==
    [][\A memOk \in BOOLEAN :
         \A analyses \in [Consulted(ValPendingFact, SeenStore(memOk))
                             -> JudgedAnalyses] :
            FactValidateReturn(analyses, memOk) =>
                val'.validation[1].contradictions =
                    ConflictingClaims(val.facts[val.idx], SeenStore(memOk),
                                      analyses)]_vars

\* C37: a message the orchestrator sent itself (a reply or a post) is never
\* forwarded to the evaluator, also when its sender id and handle are not
\* the configured ones: its id is in the SentMessageRegistry before any
\* cycle handles a fetched copy.
C37_SelfSentNeverEvaluated ==
    \A id \in DOMAIN evalLog : channel[id].origin = "user"

\* C38: whenever a call of the manager's initialize() or stop() has settled,
\* none is in flight and manager.isRunning is false, the orchestrator is
\* stopped too: its running flag is false and no timer is armed.
C38_ManagerStoppedPipelineStopped ==
    (/\ mgrReturned.call \in {"initialize", "stop"}
     /\ mgrInit = "idle" /\ mgrStop.pc = "idle"
     /\ ~mgrRunning)
        => ~isRunning /\ timers = {}

\* C40: a call of generateResponse, which a poll cycle awaits for the message
\* it handles, eventually settles when the memory store settles, even if
\* the generation service never answers: every generation call is bounded
\* by the deadline.
C40_GenerationBoundedByDeadline ==
    gen.pc \in {"drafting", "extracting", "validating", "correcting", "storing"}
        ~> gen.pc \in {"returned", "thrown"}

====
